---- MODULE Spec2Model ----
(***************************************************************************)
(* Session, token and handle management of the location-intelligence MCP   *)
(* server: SessionManager (core/session_manager.py), HandleManager         *)
(* (core/handle_manager.py), the JSON persistence helpers                  *)
(* (utils/json_handler.py) and the login gate of the backend-calling tools.*)
(*                                                                         *)
(* Time is counted in seconds.  The clock only visits the instants         *)
(* h * SecondsPerHour + s with h <= MaxHours and s <= MaxSeconds, so that  *)
(* both the hour-scale deadlines (session TTL, retention age) and the      *)
(* second-scale deadlines (token expiry buffer) are crossed.               *)
(***************************************************************************)
EXTENDS Integers, Sequences, FiniteSets, TLC

\* ------------------------------------------------------------- bounds
MaxSessions == 2
MaxHours == 1
MaxSeconds == 1
MaxFiles == 1
\* config.session_ttl_hours: a configuration value (default 8), kept small
session_ttl_hours == 1
\* the number of use_json calls that can be in progress at once
MaxCallers == 3
\* coefficients of variation run from 0 to this many thousandths
MaxCvThousandths == 350
\* the largest clusters_created
MaxClusters == 6
\* territories of a stored analysis
MaxTerritories == 2

\* ---------------------------------------------------- program constants
SecondsPerHour == 3600
TokenBufferSeconds == 60
\* config.cleanup_interval_hours (default)
cleanup_interval_hours == 1
\* the literals of the cleanup loop
DefaultMaxAgeHours == 24
LargeSessionMB == 100
StorageLimitMB == 500
KeepNewest == 50
BackoffSeconds == 300
\* BALANCE_THRESHOLDS of the territory report, in thousandths
ExcellentBelow == 100
GoodBelow == 200
AcceptableBelow == 300

VARIABLES
    now,              \* datetime.now(), in seconds
    current_session,  \* SessionManager.current_session: None or Some(SessionInfo)
    base_path_exists, \* whether the storage root directory exists
    disk,             \* the entries of the storage root, by session id
    nextId,           \* the next fresh session id (uuid4 never repeats)
    issued,           \* the handles store_data has returned: session and data
    ev,               \* the last invocation: operation, arguments, result, requests sent
    task,             \* the coroutine core.cleanup.cleanup_expired_sessions
    locks,            \* json_handler.file_lock_manager.locks: one asyncio.Lock per path
    callers           \* the use_json calls in progress

vars == <<now, current_session, base_path_exists, disk, nextId, issued, ev,
          task, locks, callers>>

\* ------------------------------------------------------ Optional values
None == <<>>
Some(v) == <<v>>

SessionIds == 1..MaxSessions
Users == {"alice"}
Tokens == {"t1", "t2"}
\* expiresIn values of the backend: the buffer itself and just above it
ExpiresInValues == {TokenBufferSeconds, TokenBufferSeconds + 1}
MaxAgeHours == 0..MaxHours

\* --------------------------------------------------------- disk content
NoEntry == [kind |-> "absent"]
NoFile == [kind |-> "absent"]
CorruptFile == [kind |-> "corrupt"]
JsonFile(c) == [kind |-> "ok", content |-> c]
NoFiles == <<>>

\* a session directory: session_metadata.json, session_info.json, the
\* directory's modification time and the stored handle files
Dir(meta, info, mtime, files) ==
    [kind |-> "dir", meta |-> meta, info |-> info, mtime |-> mtime, files |-> files]

IsDir(d, i) == d[i].kind = "dir"

\* models.SessionInfo as create_session builds it
SessionInfo(id, t) ==
    [session_id |-> id,
     created_at |-> t,
     expires_at |-> t + session_ttl_hours * SecondsPerHour,
     user_id |-> None,
     id_token |-> None,
     refresh_token |-> None,
     token_expires_at |-> None]

\* the part of the program state an operation reads and writes; io_fails says
\* whether the filesystem refuses the writes of the invocation (mkdir,
\* open(..., "w")), an outcome the environment decides
World == [cur |-> current_session, root |-> base_path_exists,
          disk |-> disk, nextId |-> nextId, io_fails |-> FALSE]

\* the program state during an invocation whose writes the filesystem refuses
FailingWorld == [World EXCEPT !.io_fails = TRUE]

\* ------------------------------------------------------ SessionManager

\* SessionManager.create_session
create_session(w, t) ==
    LET s == SessionInfo(w.nextId, t)
    IN IF w.io_fails
       THEN \* session_path.mkdir raises
            [w |-> w, ret |-> s, raised |-> TRUE]
       ELSE [w |-> [w EXCEPT !.cur = Some(s),
                             !.root = TRUE,
                             !.disk[w.nextId] = Dir(JsonFile(s), NoFile, t, NoFiles),
                             !.nextId = @ + 1],
             ret |-> s, raised |-> FALSE]

\* the sessions the disk scan of get_current_session accepts
ValidOnDisk(w, t) ==
    {i \in SessionIds :
        /\ IsDir(w.disk, i)
        /\ w.disk[i].meta.kind = "ok"
        /\ t < w.disk[i].meta.content.expires_at}

\* a scan that picks the session created first
NewestFirst_oldest(w, valid) ==
    {i \in valid : \A j \in valid :
        w.disk[i].meta.content.created_at <= w.disk[j].meta.content.created_at}

\* valid_sessions.sort(key=created_at, reverse=True)[0]: any session with the
\* greatest created_at (iterdir order decides among equals)
NewestFirst(w, valid) ==
    {i \in valid : \A j \in valid :
        w.disk[j].meta.content.created_at <= w.disk[i].meta.content.created_at}

\* what the disk scan can find: nothing, or one of the newest valid sessions
ScanResults(w, t) ==
    IF ~w.root \/ ValidOnDisk(w, t) = {}
    THEN {None}
    ELSE {Some(w.disk[i].meta.content) : i \in NewestFirst(w, ValidOnDisk(w, t))}

\* the possible outcomes of the scan get_current_session would make
Found(w, t) == IF w.cur # None THEN {None} ELSE ScanResults(w, t)

\* SessionManager.get_current_session; found is the outcome of its disk scan
get_current_session(w, t, found) ==
    IF w.cur # None
    THEN [w |-> w, ret |-> w.cur, scanned |-> FALSE]
    ELSE IF found = None
    THEN [w |-> w, ret |-> None, scanned |-> TRUE]
    ELSE \* restored: setup_session_logging opens a log file in the directory
         [w |-> [w EXCEPT !.cur = found,
                          !.disk[found[1].session_id].mtime = t],
          ret |-> found, scanned |-> TRUE]

\* the auth fields update_session_auth writes
WithAuth(s, t, uid, tok, rtok, expires_in) ==
    [s EXCEPT !.user_id = Some(uid),
              !.id_token = Some(tok),
              !.refresh_token = Some(rtok),
              !.token_expires_at = Some(t + expires_in - TokenBufferSeconds)]

\* update_session_auth keeping the auth of a session that already has a user
update_session_auth_firstWins(w, t, sid, uid, tok, rtok, expires_in) ==
    LET isdir == w.root /\ IsDir(w.disk, sid)
    IN IF isdir /\ w.disk[sid].meta.kind = "ok" /\ ~w.io_fails
          /\ w.disk[sid].meta.content.user_id = None
       THEN [w |-> [w EXCEPT
                      !.disk[sid].meta.content = WithAuth(@, t, uid, tok, rtok, expires_in),
                      !.cur = IF @ # None /\ @[1].session_id = sid
                              THEN Some(WithAuth(@[1], t, uid, tok, rtok, expires_in))
                              ELSE @],
             raised |-> FALSE, found |-> TRUE]
       ELSE [w |-> w, raised |-> FALSE, found |-> FALSE]

\* SessionManager.update_session_auth; raised when use_json cannot parse the file
update_session_auth(w, t, sid, uid, tok, rtok, expires_in) ==
    LET isdir == w.root /\ IsDir(w.disk, sid)
    IN IF isdir /\ w.disk[sid].meta.kind = "corrupt"
       THEN [w |-> w, raised |-> TRUE, found |-> FALSE]
       ELSE IF ~isdir \/ w.disk[sid].meta.kind = "absent"
       THEN [w |-> w, raised |-> FALSE, found |-> FALSE]
       ELSE IF w.io_fails
       THEN \* use_json "w" raises IOError
            [w |-> w, raised |-> TRUE, found |-> TRUE]
       ELSE [w |-> [w EXCEPT
                      !.disk[sid].meta.content = WithAuth(@, t, uid, tok, rtok, expires_in),
                      !.cur = IF @ # None /\ @[1].session_id = sid
                              THEN Some(WithAuth(@[1], t, uid, tok, rtok, expires_in))
                              ELSE @],
             raised |-> FALSE, found |-> TRUE]

\* ------------------------------------------------------------- backend
\* answers of the backend to a login or token-refresh request
AuthResponses ==
    {[kind |-> "exception"], [kind |-> "non200"], [kind |-> "malformed"]}
    \cup {[kind |-> "ok", localId |-> u, idToken |-> k, refreshToken |-> k,
           expiresIn |-> e] : u \in Users, k \in Tokens, e \in ExpiresInValues}


\* get_valid_id_token with a failed refresh logging the user out: the auth
\* fields of the in-memory session are cleared before (None, None) is returned
get_valid_id_token_logout(w, t, found, resp) ==
    LET g == get_current_session(w, t, found)
        s == g.ret[1]
    IN IF g.ret = None \/ s.refresh_token = None \/ s.user_id = None
       THEN [w |-> g.w, user_id |-> None, id_token |-> None, http |-> <<>>]
       ELSE IF \/ s.id_token = None
               \/ s.token_expires_at = None
               \/ t >= s.token_expires_at[1]
       THEN IF resp.kind # "ok"
            THEN [w |-> [g.w EXCEPT !.cur = Some([s EXCEPT !.id_token = None,
                                                           !.token_expires_at = None])],
                  user_id |-> None, id_token |-> None,
                  http |-> <<"token/refresh">>]
            ELSE LET u == update_session_auth(g.w, t, s.session_id, resp.localId,
                              resp.idToken, resp.refreshToken, resp.expiresIn)
                 IN IF u.raised
                    THEN [w |-> u.w, user_id |-> None, id_token |-> None,
                          http |-> <<"token/refresh">>]
                    ELSE [w |-> u.w, user_id |-> Some(resp.localId),
                          id_token |-> Some(resp.idToken),
                          http |-> <<"token/refresh">>]
       ELSE [w |-> g.w, user_id |-> s.user_id, id_token |-> s.id_token,
             http |-> <<>>]

\* SessionManager.get_valid_id_token; found is the outcome of the disk scan,
\* resp the backend's answer to the refresh request (if one is sent).
\* http lists the requests sent.
get_valid_id_token(w, t, found, resp) ==
    LET g == get_current_session(w, t, found)
        s == g.ret[1]
    IN IF g.ret = None \/ s.refresh_token = None \/ s.user_id = None
       THEN [w |-> g.w, user_id |-> None, id_token |-> None, http |-> <<>>]
       ELSE IF \/ s.id_token = None
               \/ s.token_expires_at = None
               \/ t >= s.token_expires_at[1]
       THEN IF resp.kind # "ok"
            THEN [w |-> g.w, user_id |-> None, id_token |-> None,
                  http |-> <<"token/refresh">>]
            ELSE LET u == update_session_auth(g.w, t, s.session_id, resp.localId,
                              resp.idToken, resp.refreshToken, resp.expiresIn)
                 IN IF u.raised
                    THEN [w |-> u.w, user_id |-> None, id_token |-> None,
                          http |-> <<"token/refresh">>]
                    ELSE [w |-> u.w, user_id |-> Some(resp.localId),
                          id_token |-> Some(resp.idToken),
                          http |-> <<"token/refresh">>]
       ELSE [w |-> g.w, user_id |-> s.user_id, id_token |-> s.id_token,
             http |-> <<>>]

\* whether get_valid_id_token will send a refresh request
NeedsRefresh(s, t) ==
    /\ s.refresh_token # None
    /\ s.user_id # None
    /\ (s.id_token = None \/ s.token_expires_at = None \/ t >= s.token_expires_at[1])

\* a tool without the try/except around its body
tool_boundary_absent(r, message) == r

\* the try/except Exception around the body of every registered tool: a fault
\* raised in the body becomes the tool's error string
tool_boundary(r, message) ==
    IF r.raised THEN [r EXCEPT !.raised = FALSE, !.ret = message] ELSE r

\* the body of tools/auth_tools.user_login, inside its try
user_login_body(w, t, found, resp) ==
    LET g == get_current_session(w, t, found)
        c == IF g.ret = None THEN create_session(g.w, t)
             ELSE [w |-> g.w, ret |-> g.ret[1], raised |-> FALSE]
    IN IF c.raised
       THEN [w |-> c.w, ret |-> "raised", http |-> <<>>, raised |-> TRUE]
       ELSE IF resp.kind = "non200"
       THEN [w |-> c.w, ret |-> "login_failed", http |-> <<"login">>, raised |-> FALSE]
       ELSE IF resp.kind = "malformed"
       THEN [w |-> c.w, ret |-> "malformed_response", http |-> <<"login">>,
             raised |-> FALSE]
       ELSE IF resp.kind = "exception"
       THEN [w |-> c.w, ret |-> "raised", http |-> <<"login">>, raised |-> TRUE]
       ELSE LET u == update_session_auth(c.w, t, c.ret.session_id, resp.localId,
                         resp.idToken, resp.refreshToken, resp.expiresIn)
            IN IF u.raised
               THEN [w |-> u.w, ret |-> "raised", http |-> <<"login">>, raised |-> TRUE]
               ELSE [w |-> u.w, ret |-> "login_successful", http |-> <<"login">>,
                     raised |-> FALSE]

\* tools/auth_tools.user_login
user_login(w, t, found, resp) ==
    tool_boundary(user_login_body(w, t, found, resp), "internal_error")


\* ------------------------------------------------------ utils/json_handler
\* Python values a payload is built from
PyInt(v) == [t |-> "int", v |-> v]
PyStr(v) == [t |-> "str", v |-> v]
PyDatetime(v) == [t |-> "datetime", v |-> v]
PyList(elems) == [t |-> "list", elems |-> elems]
PyTuple(elems) == [t |-> "tuple", elems |-> elems]
\* a dict with string keys: keys and values, in insertion order
PyDict(keys, elems) == [t |-> "dict", keys |-> keys, elems |-> elems]

\* datetime.isoformat()
IsoFormat(v) == IF v = 0 THEN "1970-01-01T00:00:00" ELSE "1970-01-01T00:00:01"

RECURSIVE to_serializable(_)
\* json_handler.to_serializable
to_serializable(obj) ==
    IF obj.t = "dict"
    THEN PyDict(obj.keys, [k \in DOMAIN obj.elems |-> to_serializable(obj.elems[k])])
    ELSE IF obj.t = "list"
    THEN PyList([k \in DOMAIN obj.elems |-> to_serializable(obj.elems[k])])
    ELSE IF obj.t = "tuple"
    THEN PyTuple([k \in DOMAIN obj.elems |-> to_serializable(obj.elems[k])])
    ELSE IF obj.t = "datetime"
    THEN PyStr(IsoFormat(obj.v))
    ELSE obj

RECURSIVE JsonLoadsDumps(_)
\* json.loads(json.dumps(obj)): what use_json "r" returns for what use_json "w"
\* wrote; a tuple is written as an array and read back as a list
JsonLoadsDumps(obj) ==
    IF obj.t = "dict"
    THEN PyDict(obj.keys, [k \in DOMAIN obj.elems |-> JsonLoadsDumps(obj.elems[k])])
    ELSE IF obj.t \in {"list", "tuple"}
    THEN PyList([k \in DOMAIN obj.elems |-> JsonLoadsDumps(obj.elems[k])])
    ELSE obj

\* Python truth value of a JSON document (`if data:`)
Truthy(obj) ==
    IF obj.t \in {"dict", "list", "tuple"} THEN obj.elems # <<>>
    ELSE IF obj.t = "int" THEN obj.v # 0
    ELSE IF obj.t = "str" THEN obj.v # ""
    ELSE TRUE

\* the payloads handed to store_data
Payloads ==
    {PyDict(<<>>, <<>>),
     PyList(<<>>),
     PyList(<<PyStr("a"), PyInt(0)>>),
     PyDict(<<"bbox">>, <<PyTuple(<<PyInt(1), PyInt(2)>>)>>),
     PyDict(<<"at">>, <<PyDatetime(1)>>)}

\* ------------------------------------------------------- HandleManager
DataTypes == {"geospatial_data"}
Locations == {"y"}

\* f"{data_type}_{location}_{timestamp}_{session_id}.json"
HandleName(data_type, location, t, sid) == <<data_type, location, t, sid>>

\* a lookup in the directory of the session named in the handle
HandleDir_fromName(sid, handle) == handle[4]

\* the directory a handle is looked up in: base_path / session.session_id
HandleDir(sid, handle) == sid

\* HandleManager._touch_session
touch_session(w, t, sid) ==
    LET d == w.disk[sid]
    IN IF ~w.root \/ ~IsDir(w.disk, sid) \/ d.info.kind = "corrupt" \/ w.io_fails
       THEN w   \* the failure is logged and swallowed
       ELSE [w EXCEPT
               !.disk[sid].info =
                   JsonFile([last_access |-> Some(t),
                             created_at |-> IF d.info.kind = "ok"
                                            THEN d.info.content.created_at ELSE t]),
               !.disk[sid].mtime = IF d.info.kind = "absent" THEN t ELSE @]

\* _get_session_last_access without the fallback to the directory's
\* modification time: a directory with no readable last_access counts as
\* last used an hour before the server started
get_session_last_access_noFallback(w, sid) ==
    LET d == w.disk[sid]
    IN IF d.info.kind = "ok" /\ d.info.content.last_access # None
       THEN d.info.content.last_access
       ELSE Some(0 - SecondsPerHour)

\* HandleManager._get_session_last_access
get_session_last_access(w, sid) ==
    LET d == w.disk[sid]
    IN IF d.info.kind = "corrupt" THEN None
       ELSE IF d.info.kind = "ok" /\ d.info.content.last_access # None
       THEN d.info.content.last_access
       ELSE Some(d.mtime)

\* HandleManager.store_data
store_data(w, t, found, data_type, location, data) ==
    LET g == get_current_session(w, t, found)
        c == IF g.ret = None THEN create_session(g.w, t)
             ELSE [w |-> g.w, ret |-> g.ret[1], raised |-> FALSE]
        sid == c.ret.session_id
        \* session_path.mkdir(parents=True, exist_ok=True)
        w1 == IF c.w.root /\ IsDir(c.w.disk, sid) THEN c.w
              ELSE [c.w EXCEPT !.root = TRUE,
                               !.disk[sid] = Dir(NoFile, NoFile, t, NoFiles)]
        handle == HandleName(data_type, location, t, sid)
        isnew == handle \notin DOMAIN w1.disk[sid].files
        w2 == [w1 EXCEPT !.disk[sid].files = (handle :> JsonFile(to_serializable(data))) @@ @,
                         !.disk[sid].mtime = IF isnew THEN t ELSE @]
    IN IF c.raised \/ c.w.io_fails
       THEN \* create_session, mkdir or use_json "w" raises: nothing is written
            [w |-> c.w, ret |-> handle, sid |-> sid, raised |-> TRUE]
       ELSE [w |-> touch_session(w2, t, sid), ret |-> handle, sid |-> sid,
             raised |-> FALSE]

\* HandleManager.read_data
read_data(w, t, found, handle) ==
    LET g == get_current_session(w, t, found)
        sid == HandleDir(g.ret[1].session_id, handle)
        exists == /\ g.w.root
                  /\ IsDir(g.w.disk, sid)
                  /\ handle \in DOMAIN g.w.disk[sid].files
    IN IF g.ret = None
       THEN [w |-> g.w, ret |-> None, raised |-> FALSE]
       ELSE IF exists /\ g.w.disk[sid].files[handle].kind = "corrupt"
       THEN \* use_json "r" raises IOError on a file it cannot parse
            [w |-> g.w, ret |-> None, raised |-> TRUE]
       ELSE IF exists /\ Truthy(JsonLoadsDumps(g.w.disk[sid].files[handle].content))
       THEN [w |-> touch_session(g.w, t, g.ret[1].session_id),
             ret |-> Some(JsonLoadsDumps(g.w.disk[sid].files[handle].content)),
             raised |-> FALSE]
       ELSE [w |-> g.w, ret |-> None, raised |-> FALSE]

\* the session directories the age sweep removes
ExpiredDirs(w, t, max_age_hours) ==
    {i \in SessionIds :
        /\ w.root
        /\ IsDir(w.disk, i)
        /\ get_session_last_access(w, i) # None
        /\ get_session_last_access(w, i)[1] < t - max_age_hours * SecondsPerHour}

\* HandleManager.cleanup_expired_sessions
cleanup_expired_sessions(w, t, max_age_hours) ==
    LET gone == ExpiredDirs(w, t, max_age_hours)
    IN [w |-> [w EXCEPT !.disk = [i \in SessionIds |-> IF i \in gone THEN NoEntry ELSE @[i]]],
        cleaned |-> Cardinality(gone), removed |-> gone]

\* datetime.min, the sort key of a session without a last-access time:
\* earlier than every instant of the model
DatetimeMin == -999999

SortKey(w, i) ==
    IF get_session_last_access(w, i) = None THEN DatetimeMin
    ELSE get_session_last_access(w, i)[1]

AllDirs(w) == {i \in SessionIds : w.root /\ IsDir(w.disk, i)}

\* the orders sessions.sort(key=last_access, reverse=True) can produce
\* (iterdir order decides among equal keys)
SortedNewestFirst(w) ==
    {p \in [1..Cardinality(AllDirs(w)) -> AllDirs(w)] :
        /\ \A a, b \in DOMAIN p : a # b => p[a] # p[b]
        /\ \A a, b \in DOMAIN p : a < b => SortKey(w, p[a]) >= SortKey(w, p[b])}

\* HandleManager.cleanup_oldest_sessions; order is the sorted list
cleanup_oldest_sessions(w, keep_count, order) ==
    LET gone == {order[k] : k \in {k \in DOMAIN order : k > keep_count}}
    IN [w |-> [w EXCEPT !.disk = [i \in SessionIds |-> IF i \in gone THEN NoEntry ELSE @[i]]],
        cleaned |-> Cardinality(gone), removed |-> gone]


\* ------------------------------------------------- backend-calling tools
BackendTools == {"fetch_geospatial_data", "optimize_sales_territories",
                 "generate_territory_report", "hub_expansion_analyzer",
                 "generate_pharmacy_report"}

Endpoint(tool) ==
    IF tool = "fetch_geospatial_data" THEN "fetch_dataset"
    ELSE IF tool = "optimize_sales_territories" THEN "temp_sales_man_problem"
    ELSE IF tool = "hub_expansion_analyzer" THEN "hub_expansion_analysis"
    ELSE "smart_pharmacy_report"

StoredType(tool) ==
    IF tool = "fetch_geospatial_data" THEN "geospatial_data"
    ELSE IF tool = "optimize_sales_territories" THEN "territory_optimization"
    ELSE "hub_expansion"

\* answers of the backend to a tool's request
ApiResponses == {[kind |-> "exception"], [kind |-> "non200"], [kind |-> "malformed"],
                 [kind |-> "empty"], [kind |-> "ok"]}

\* the document a tool stores after a successful call
ToolData == PyDict(<<"success", "metadata">>, <<PyInt(1), PyList(<<PyInt(1)>>)>>)
City == "riyadh"

\* territory_data.get("success") and metadata present
ValidTerritoryData(doc) ==
    /\ doc.t = "dict"
    /\ \E k \in DOMAIN doc.keys : doc.keys[k] = "success" /\ Truthy(doc.elems[k])
    /\ \E k \in DOMAIN doc.keys : doc.keys[k] = "metadata" /\ Truthy(doc.elems[k])

\* call_hub_expansion_internal with its failure handling turned off
call_hub_expansion_internal_unchecked(resp) == [error |-> FALSE]

\* hub_analyzer.call_hub_expansion_internal: the response document, or an
\* {"error": ...} document for a non-200 status and for any exception
\* (transport failure, body that is not JSON)
call_hub_expansion_internal(resp) ==
    [error |-> resp.kind \in {"exception", "non200", "malformed"}]

\* pharmacy_analyzer.call_pharmacy_report_api
call_pharmacy_report_api(resp) ==
    [error |-> resp.kind \in {"exception", "non200", "malformed"}]

\* the part of a backend-calling tool after its login gate, inside its try
AfterGate(w, t, tool, user_id, id_token, http, resp, handle) ==
    IF tool = "generate_territory_report"
    THEN LET r == read_data(w, t, None, handle)
         IN [w |-> r.w, http |-> http, stored |-> None, raised |-> FALSE,
             ret |-> IF r.raised THEN "error_retrieving"
                     ELSE IF r.ret # None /\ ValidTerritoryData(r.ret[1])
                     THEN "report_saved" ELSE "invalid_data"]
    ELSE IF tool = "generate_pharmacy_report"
    THEN [w |-> w, http |-> Append(http, Endpoint(tool)), stored |-> None,
          raised |-> FALSE,
          ret |-> IF call_pharmacy_report_api(resp).error \/ w.io_fails
                  THEN "error_envelope" ELSE "report_saved"]
    ELSE IF tool = "hub_expansion_analyzer"
    THEN IF call_hub_expansion_internal(resp).error
         THEN [w |-> w, http |-> Append(http, Endpoint(tool)), stored |-> None,
               raised |-> FALSE, ret |-> "error_envelope"]
         ELSE LET st == store_data(w, t, None, StoredType(tool), City, ToolData)
              IN [w |-> st.w, http |-> Append(http, Endpoint(tool)),
                  stored |-> IF st.raised THEN None
                             ELSE Some([handle |-> st.ret, session |-> st.sid,
                                        data |-> ToolData]),
                  raised |-> st.raised,
                  ret |-> "analysis"]
    ELSE \* fetch_geospatial_data, optimize_sales_territories
         IF resp.kind = "ok"
         THEN LET st == store_data(w, t, None, StoredType(tool), City, ToolData)
              IN [w |-> st.w, http |-> Append(http, Endpoint(tool)),
                  stored |-> IF st.raised THEN None
                             ELSE Some([handle |-> st.ret, session |-> st.sid,
                                        data |-> ToolData]),
                  raised |-> st.raised,
                  ret |-> "data_stored"]
         ELSE [w |-> w, http |-> Append(http, Endpoint(tool)), stored |-> None,
               \* a transport failure or a body that is not JSON raises
               raised |-> resp.kind \in {"exception", "malformed"},
               ret |-> IF resp.kind = "non200" THEN "error_status" ELSE "no_data"]

\* what the except clause of a backend-calling tool returns
CriticalError(tool) ==
    IF tool \in {"hub_expansion_analyzer", "generate_pharmacy_report"}
    THEN "error_envelope" ELSE "error_exception"

\* a tool without its login gate
backend_tool_ungated(w, t, found, refresh, tool, resp, handle) ==
    LET v == get_valid_id_token(w, t, found, refresh)
    IN tool_boundary(AfterGate(v.w, t, tool, v.user_id, v.id_token, v.http, resp, handle),
                     CriticalError(tool))

\* a tool that sends its request before looking at the gate
backend_tool_callFirst(w, t, found, refresh, tool, resp, handle) ==
    LET v == get_valid_id_token(w, t, found, refresh)
    IN IF v.id_token = None \/ v.user_id = None
       THEN [w |-> v.w, ret |-> "not_logged_in",
             http |-> Append(v.http, Endpoint(tool)), stored |-> None,
             raised |-> FALSE]
       ELSE tool_boundary(
               AfterGate(v.w, t, tool, v.user_id, v.id_token, v.http, resp, handle),
               CriticalError(tool))

\* a backend-calling tool: the login gate, then the call
backend_tool(w, t, found, refresh, tool, resp, handle) ==
    LET v == get_valid_id_token(w, t, found, refresh)
    IN IF v.id_token = None \/ v.user_id = None
       THEN [w |-> v.w, ret |-> "not_logged_in", http |-> v.http, stored |-> None,
             raised |-> FALSE]
       ELSE tool_boundary(
               AfterGate(v.w, t, tool, v.user_id, v.id_token, v.http, resp, handle),
               CriticalError(tool))


\* HandleManager.list_session_data: the handle files of the directory; stat of
\* a listed file raises when the file system fails
list_session_data(w, sid) ==
    IF ~(w.root /\ IsDir(w.disk, sid))
    THEN [ret |-> {}, raised |-> FALSE]
    ELSE IF DOMAIN w.disk[sid].files # {} /\ w.io_fails
    THEN [ret |-> {}, raised |-> TRUE]
    ELSE [ret |-> DOMAIN w.disk[sid].files, raised |-> FALSE]

\* tools/auth_tools.list_stored_data
list_stored_data(w, t, found) ==
    LET g == get_current_session(w, t, found)
        l == list_session_data(g.w, g.ret[1].session_id)
    IN tool_boundary(
          IF g.ret = None
          THEN [w |-> g.w, ret |-> "no_session", raised |-> FALSE]
          ELSE IF l.raised
          THEN [w |-> g.w, ret |-> "raised", raised |-> TRUE]
          ELSE IF l.ret = {}
          THEN [w |-> g.w, ret |-> "no_files", raised |-> FALSE]
          ELSE [w |-> g.w, ret |-> "listing", raised |-> FALSE],
          "error_listing")

\* tools/auth_tools.get_data_from_handle
get_data_from_handle(w, t, found, handle) ==
    LET g == get_current_session(w, t, found)
        r == read_data(g.w, t, None, handle)
    IN tool_boundary(
          IF g.ret = None
          THEN [w |-> g.w, ret |-> "no_session", raised |-> FALSE]
          ELSE IF r.raised
          THEN [w |-> r.w, ret |-> "raised", raised |-> TRUE]
          ELSE IF r.ret = None
          THEN [w |-> r.w, ret |-> "no_data", raised |-> FALSE]
          ELSE [w |-> r.w, ret |-> "content", raised |-> FALSE],
          "error_reading")

\* the states the log file of the current session can be in
LogFiles == {"absent", "unreadable", "ok"}

\* tools/auth_tools.get_current_session_logs
get_current_session_logs(w, t, found, log) ==
    LET g == get_current_session(w, t, found)
    IN tool_boundary(
          IF g.ret = None
          THEN [w |-> g.w, ret |-> "no_session", raised |-> FALSE]
          ELSE IF log = "absent"
          THEN [w |-> g.w, ret |-> "no_log_file", raised |-> FALSE]
          ELSE IF log = "unreadable" \/ g.w.io_fails
          THEN [w |-> g.w, ret |-> "raised", raised |-> TRUE]
          ELSE [w |-> g.w, ret |-> "log_lines", raised |-> FALSE],
          "error_reading_logs")

\* ================================================================ actions
Apply(w) ==
    /\ current_session' = w.cur
    /\ base_path_exists' = w.root
    /\ disk' = w.disk
    /\ nextId' = w.nextId

\* uuid4 ids are drawn from SessionIds: an operation that has to create a
\* session needs a fresh one
CanCreate(w, found) == w.cur # None \/ found # None \/ w.nextId <= MaxSessions

FilesWithinBound(w) ==
    \A i \in SessionIds :
        IsDir(w.disk, i) => Cardinality(DOMAIN w.disk[i].files) <= MaxFiles

\* the answers the refresh endpoint can give, when it is asked at all
RefreshAnswers(w, t, found) ==
    LET g == get_current_session(w, t, found)
    IN IF g.ret # None /\ NeedsRefresh(g.ret[1], t)
       THEN AuthResponses ELSE {[kind |-> "unused"]}

Idle == [op |-> "none"]

\* the clock
TickSecond ==
    /\ now % SecondsPerHour < MaxSeconds
    /\ now' = now + 1
    /\ UNCHANGED <<task, locks, callers>>
    /\ ev' = Idle
    /\ UNCHANGED <<current_session, base_path_exists, disk, nextId, issued>>

TickHour ==
    /\ now \div SecondsPerHour < MaxHours
    /\ now' = now + SecondsPerHour
    /\ UNCHANGED <<task, locks, callers>>
    /\ ev' = Idle
    /\ UNCHANGED <<current_session, base_path_exists, disk, nextId, issued>>

\* the server process restarts: SessionManager.__init__ runs again
Restart ==
    /\ current_session # None
    /\ current_session' = None
    /\ UNCHANGED <<task, locks, callers>>
    /\ ev' = Idle
    /\ UNCHANGED <<now, base_path_exists, disk, nextId, issued>>

GetCurrentSession ==
    \E found \in Found(World, now) :
        LET r == get_current_session(World, now, found)
        IN /\ Apply(r.w)
           /\ UNCHANGED <<task, locks, callers>>
           /\ ev' = [op |-> "get_current_session", ret |-> r.ret, scanned |-> r.scanned]
           /\ UNCHANGED <<now, issued>>

GetValidIdToken ==
    \E found \in Found(World, now) :
      \E refresh \in RefreshAnswers(World, now, found) :
        LET r == get_valid_id_token(World, now, found, refresh)
        IN /\ Apply(r.w)
           /\ UNCHANGED <<task, locks, callers>>
           /\ ev' = [op |-> "get_valid_id_token", user_id |-> r.user_id,
                     id_token |-> r.id_token, http |-> r.http, refresh |-> refresh]
           /\ UNCHANGED <<now, issued>>

UserLogin ==
    \E found \in Found(World, now) :
      \E resp \in AuthResponses :
        /\ CanCreate(World, found)
        /\ LET r == user_login(World, now, found, resp)
           IN /\ Apply(r.w)
              /\ UNCHANGED <<task, locks, callers>>
              /\ ev' = [op |-> "user_login", ret |-> r.ret, http |-> r.http,
                        resp |-> resp]
        /\ UNCHANGED <<now, issued>>

\* issued remembers, for every handle given out, the session it was given
\* out to and the data last stored under it
Issue(rec) == {h \in issued : h.handle # rec.handle} \cup {rec}

ReadHandles ==
    {h.handle : h \in issued}
    \cup {HandleName(dt, loc, now, sid) :
            dt \in DataTypes, loc \in Locations, sid \in SessionIds}

Unused == [kind |-> "unused"]

\* the answers the tool's endpoint can give, when it is asked at all
ToolAnswers(w, t, found, refresh, tool) ==
    LET v == get_valid_id_token(w, t, found, refresh)
    IN IF tool = "generate_territory_report" \/ v.id_token = None \/ v.user_id = None
       THEN {Unused} ELSE ApiResponses

BackendTool ==
    \E tool \in BackendTools :
      \E found \in Found(World, now) :
        \E refresh \in RefreshAnswers(World, now, found) :
          \E resp \in ToolAnswers(World, now, found, refresh, tool) :
            \E handle \in IF tool = "generate_territory_report" THEN ReadHandles ELSE {None} :
              LET r == backend_tool(World, now, found, refresh, tool, resp, handle)
              IN /\ FilesWithinBound(r.w)
                 /\ Apply(r.w)
                 /\ issued' = IF r.stored = None THEN issued
                              ELSE Issue(r.stored[1])
                 /\ UNCHANGED <<task, locks, callers>>
                 /\ ev' = [op |-> "tool", tool |-> tool, ret |-> r.ret, http |-> r.http,
                           resp |-> resp, raised |-> r.raised]
                 /\ UNCHANGED now

StoreData ==
    \E found \in Found(World, now) :
      \E dt \in DataTypes, loc \in Locations, data \in Payloads :
        /\ CanCreate(World, found)
        /\ LET r == store_data(World, now, found, dt, loc, data)
           IN /\ FilesWithinBound(r.w)
              /\ Apply(r.w)
              /\ issued' = Issue([handle |-> r.ret, session |-> r.sid, data |-> data])
              /\ UNCHANGED <<task, locks, callers>>
              /\ ev' = [op |-> "store_data", handle |-> r.ret, session |-> r.sid,
                        data |-> data]
        /\ UNCHANGED now

ReadData ==
    \E found \in Found(World, now) :
      \E handle \in ReadHandles :
        LET r == read_data(World, now, found, handle)
        IN /\ Apply(r.w)
           /\ UNCHANGED <<task, locks, callers>>
           /\ ev' = [op |-> "read_data", handle |-> handle, ret |-> r.ret]
           /\ UNCHANGED <<now, issued>>

\* one call of cleanup_expired_sessions
SweepExpired(max_age_hours) ==
    LET r == cleanup_expired_sessions(World, now, max_age_hours)
    IN /\ Apply(r.w)
       /\ UNCHANGED <<task, locks, callers>>
       /\ ev' = [op |-> "cleanup_expired_sessions", max_age_hours |-> max_age_hours,
                 cleaned |-> r.cleaned, removed |-> r.removed]
       /\ UNCHANGED <<now, issued>>

CleanupExpiredSessions == \E max_age_hours \in MaxAgeHours : SweepExpired(max_age_hours)

\* a cycle of the background task: max_age_hours=config.session_ttl_hours or 24
\* (its size and count sweeps do not act within the bounds of the model)
BackgroundCleanup ==
    SweepExpired(IF session_ttl_hours # 0 THEN session_ttl_hours ELSE 24)

CleanupOldestSessions ==
    \E keep_count \in 0..MaxSessions :
      \E order \in SortedNewestFirst(World) :
        LET r == cleanup_oldest_sessions(World, keep_count, order)
        IN /\ Apply(r.w)
           /\ UNCHANGED <<task, locks, callers>>
           /\ ev' = [op |-> "cleanup_oldest_sessions", keep_count |-> keep_count,
                     cleaned |-> r.cleaned, removed |-> r.removed]
           /\ UNCHANGED <<now, issued>>

\* ---- core.cleanup.cleanup_expired_sessions, the background loop
\* task.pc names the await the coroutine is suspended in: one of the four
\* calls of a cycle, the sleep between cycles, the sleep after a failed
\* cycle; or how the coroutine has ended: "returned" (the loop was left by
\* break) or "cancelled" (CancelledError left the coroutine).
CycleSteps == {"expired", "large", "stats", "oldest"}

\* config.session_ttl_hours as the loop reads it: unset (0) or set
TtlValues == {0, session_ttl_hours}

\* the coroutine has been called and is inside the first call of its first cycle
Started(ttl) ==
    [pc |-> "expired", serving |-> TRUE, ttl |-> ttl, calls |-> <<>>, slept |-> 0,
     wake_at |-> 0, failures |-> 0, cancelled_at |-> None]

\* max_age_hours=config.session_ttl_hours or 24
max_age_hours_of(ttl) == IF ttl # 0 THEN ttl ELSE DefaultMaxAgeHours

\* HandleManager.cleanup_large_sessions; big is the set of directories whose
\* size is above max_size_mb
cleanup_large_sessions(w, big) ==
    [w |-> [w EXCEPT !.disk = [i \in SessionIds |-> IF i \in big THEN NoEntry ELSE @[i]]],
     cleaned |-> Cardinality(big), removed |-> big]

\* total_size_mb values get_storage_stats can report
TotalSizesMB == {0, StorageLimitMB, StorageLimitMB + 1}

\* the size test with the limit itself counted as too much
needs_oldest_sweep_atLimit(total_size_mb) == total_size_mb >= StorageLimitMB

\* if storage_stats["total_size_mb"] > 500
needs_oldest_sweep(total_size_mb) == total_size_mb > StorageLimitMB

\* await asyncio.sleep(config.cleanup_interval_hours * 3600), at the end of a cycle
begin_sleep(tk, t) ==
    [tk EXCEPT !.pc = "sleep",
               !.slept = cleanup_interval_hours * SecondsPerHour,
               !.wake_at = t + cleanup_interval_hours * SecondsPerHour]

\* a failed cycle that ends the coroutine
on_exception_fatal(tk, t) == [tk EXCEPT !.pc = "returned"]

\* except Exception: log, then await asyncio.sleep(300)
on_exception(tk, t) ==
    [tk EXCEPT !.pc = "backoff",
               !.slept = BackoffSeconds,
               !.wake_at = t + BackoffSeconds,
               !.failures = @ + 1]

\* Task.cancel() while the coroutine is suspended: CancelledError is raised at
\* the await. Inside the try (a call of the cycle, the sleep between cycles)
\* the handler at line 71 breaks out of the loop and the coroutine returns.
\* The backoff sleep is inside the except Exception handler, which no handler
\* covers: CancelledError leaves the coroutine.
cancel(tk) ==
    [tk EXCEPT !.pc = IF tk.pc = "backoff" THEN "cancelled" ELSE "returned",
               !.cancelled_at = Some(tk.pc)]

TaskAlive == task.pc \in CycleSteps \cup {"sleep", "backoff"}

CycleExpired ==
    /\ task.pc = "expired"
    /\ LET r == cleanup_expired_sessions(World, now, max_age_hours_of(task.ttl))
       IN /\ Apply(r.w)
          /\ task' = [task EXCEPT !.pc = "large",
                         !.calls = Append(@, [op |-> "cleanup_expired_sessions",
                                              arg |-> max_age_hours_of(task.ttl)])]
    /\ UNCHANGED <<now, issued, ev, locks, callers>>

CycleLarge ==
    /\ task.pc = "large"
    /\ \E big \in SUBSET AllDirs(World) :
         LET r == cleanup_large_sessions(World, big)
         IN /\ Apply(r.w)
            /\ task' = [task EXCEPT !.pc = "stats",
                           !.calls = Append(@, [op |-> "cleanup_large_sessions",
                                                arg |-> LargeSessionMB])]
    /\ UNCHANGED <<now, issued, ev, locks, callers>>

\* get_storage_stats, the size test, and, when the sweep is not needed, the
\* summary and the start of the sleep
CycleStats ==
    /\ task.pc = "stats"
    /\ \E total_size_mb \in TotalSizesMB :
         LET tk == [task EXCEPT !.calls = Append(@, [op |-> "get_storage_stats",
                                                     arg |-> total_size_mb])]
         IN task' = IF needs_oldest_sweep(total_size_mb)
                    THEN [tk EXCEPT !.pc = "oldest"]
                    ELSE begin_sleep(tk, now)
    /\ UNCHANGED <<now, current_session, base_path_exists, disk, nextId, issued, ev,
                   locks, callers>>

CycleOldest ==
    /\ task.pc = "oldest"
    /\ \E order \in SortedNewestFirst(World) :
         LET r == cleanup_oldest_sessions(World, KeepNewest, order)
         IN /\ Apply(r.w)
            /\ task' = begin_sleep(
                           [task EXCEPT !.calls = Append(@, [op |-> "cleanup_oldest_sessions",
                                                             arg |-> KeepNewest])],
                           now)
    /\ UNCHANGED <<now, issued, ev, locks, callers>>

\* a call of the cycle raises an exception other than CancelledError
CycleRaises ==
    /\ task.pc \in CycleSteps
    /\ task' = on_exception(task, now)
    /\ UNCHANGED <<now, current_session, base_path_exists, disk, nextId, issued, ev,
                   locks, callers>>

\* a sleep is over: while True starts the next cycle
NextCycle ==
    /\ task.pc \in {"sleep", "backoff"}
    /\ now >= task.wake_at
    /\ task' = [task EXCEPT !.pc = "expired", !.calls = <<>>]
    /\ UNCHANGED <<now, current_session, base_path_exists, disk, nextId, issued, ev,
                   locks, callers>>

CancelTask ==
    /\ TaskAlive
    /\ task' = cancel(task)
    /\ UNCHANGED <<now, current_session, base_path_exists, disk, nextId, issued, ev,
                   locks, callers>>

\* ---- helpers of the territory report (pure functions)
\* assess_balance_quality with the thresholds counted into the better class
assess_balance_quality_inclusive(cv) ==
    IF cv <= ExcellentBelow THEN "Excellent"
    ELSE IF cv <= GoodBelow THEN "Good"
    ELSE IF cv <= AcceptableBelow THEN "Acceptable"
    ELSE "Needs Improvement"

\* generate_report.assess_balance_quality; cv in thousandths
assess_balance_quality(cv) ==
    IF cv < ExcellentBelow THEN "Excellent"
    ELSE IF cv < GoodBelow THEN "Good"
    ELSE IF cv < AcceptableBelow THEN "Acceptable"
    ELSE "Needs Improvement"

\* variation = 0.85 + (0.3 * (i % 3) / 2), in hundredths: the doubles it
\* yields are those of the literals 0.85, 1.0 and 1.15
Variation(i) == 85 + (30 * (i % 3)) \div 2

RECURSIVE Pow2Below(_)
\* the largest power of two that is <= k, for k >= 1
Pow2Below(k) == IF k < 2 THEN 1 ELSE 2 * Pow2Below(k \div 2)

\* The double 1.15 is 23/20 less 7.7e-17 of it, and avg_customers * variation
\* is rounded to the nearest double. When the exact product is an integer k,
\* the double product is the double below k exactly when that shortfall
\* exceeds half the spacing of the doubles at k, that is when the significand
\* of k is above 23/16. The double 0.85 is too close to 17/20 for that, and
\* 1.0 is exact.
DoubleFallsShort(k, variation) ==
    /\ variation = 115
    /\ k > 0
    /\ 16 * k > 23 * Pow2Below(k)

\* customers = int(avg_customers * variation) of row i (i counts from 0)
SyntheticCustomers(total_customers, clusters_created, i) ==
    LET num == total_customers * Variation(i)
        den == clusters_created * 100
        k == num \div den
    IN IF num % den = 0 /\ DoubleFallsShort(k, Variation(i)) THEN k - 1 ELSE k

\* generate_synthetic_territory_table: its second result, the customers of
\* the rows (the market share of a row is customers / total_customers * 100)
generate_synthetic_territory_table(total_customers, clusters_created) ==
    IF clusters_created = 0 THEN <<>>
    ELSE [k \in 1..clusters_created |->
             SyntheticCustomers(total_customers, clusters_created, k - 1)]

\* the inputs the helpers are applied to
CvValues == 0..MaxCvThousandths
TotalCustomers == {600, 1000, 1000000}
ClusterCounts == 0..MaxClusters

AssessBalanceQuality ==
    /\ ev.op = "cv"
    /\ ev' = [op |-> "assess_balance_quality", cv |-> ev.cv,
              ret |-> assess_balance_quality(ev.cv)]
    /\ UNCHANGED <<now, current_session, base_path_exists, disk, nextId, issued,
                   task, locks, callers>>

GenerateSyntheticTerritoryTable ==
    /\ ev.op = "totals"
    /\ ev' = [op |-> "generate_synthetic_territory_table",
              total_customers |-> ev.total_customers,
              clusters_created |-> ev.clusters_created,
              customers |-> generate_synthetic_territory_table(
                               ev.total_customers, ev.clusters_created)]
    /\ UNCHANGED <<now, current_session, base_path_exists, disk, nextId, issued,
                   task, locks, callers>>

\* ---- json_handler.FileLock and use_json
Paths == {"a.json", "b.json"}
\* "r" and "w", and a mode use_json does not recognise
Modes == {"r", "w", "a"}
CallerIds == 1..MaxCallers
IdleCaller == [pc |-> "idle"]

\* asyncio.Lock(): unlocked, nobody waiting; woken is the waiter whose future
\* release has completed and who has not run yet
NewLock == [locked |-> FALSE, waiters |-> <<>>, woken |-> None]

WithLock(lk, filename, l) ==
    [p \in DOMAIN lk \cup {filename} |-> IF p = filename THEN l ELSE lk[p]]

\* Lock.acquire as FileLock.acquire reaches it: taken at once when the lock is
\* free and nobody waits for it, otherwise the caller queues
lock_acquire(l, c) ==
    IF ~l.locked /\ l.waiters = <<>>
    THEN [lock |-> [l EXCEPT !.locked = TRUE], entered |-> TRUE]
    ELSE [lock |-> [l EXCEPT !.waiters = Append(@, c)], entered |-> FALSE]

\* FileLock.acquire with a new Lock made on every call
acquire_fresh(lk, filename, c) ==
    LET a == lock_acquire(NewLock, c)
    IN [locks |-> WithLock(lk, filename, a.lock), entered |-> a.entered]

\* FileLock.acquire, up to the point where the caller holds the lock or waits:
\* the lock of a path is created on first use and reused afterwards
acquire(lk, filename, c) ==
    LET l == IF filename \in DOMAIN lk THEN lk[filename] ELSE NewLock
        a == lock_acquire(l, c)
    IN [locks |-> WithLock(lk, filename, a.lock), entered |-> a.entered]

\* Lock.release, at the end of the async with block: the first waiter is woken
release(l) ==
    [l EXCEPT !.locked = FALSE,
              !.woken = IF l.waiters = <<>> THEN None ELSE Some(Head(l.waiters))]

\* use_json is called: async with file_lock_manager.acquire(file_path)
UseJson ==
    \E c \in CallerIds, file_path \in Paths :
      /\ callers[c].pc = "idle"
      /\ LET a == acquire(locks, file_path, c)
         IN /\ locks' = a.locks
            /\ callers' = [callers EXCEPT ![c] =
                   [pc |-> IF a.entered THEN "critical" ELSE "waiting",
                    path |-> file_path]]
      /\ UNCHANGED <<now, current_session, base_path_exists, disk, nextId, issued,
                     ev, task>>

\* a woken waiter runs: it leaves the queue and holds the lock
LockGranted ==
    \E c \in CallerIds :
      /\ callers[c].pc = "waiting"
      /\ locks[callers[c].path].woken = Some(c)
      /\ locks' = [locks EXCEPT ![callers[c].path] =
                      [locked |-> TRUE, waiters |-> Tail(@.waiters), woken |-> None]]
      /\ callers' = [callers EXCEPT ![c].pc = "critical"]
      /\ UNCHANGED <<now, current_session, base_path_exists, disk, nextId, issued,
                     ev, task>>

\* the ways out of the body of use_json: the content read or None after a
\* write ("returned"), None for a missing file ("missing"), IOError for a
\* file that does not parse or an I/O failure, ValueError for a mode that
\* is neither "r" nor "w"
Exits(mode) ==
    IF mode = "w" THEN {"returned", "IOError"}
    ELSE IF mode = "r" THEN {"returned", "missing", "IOError"}
    ELSE {"ValueError"}

\* an async with block that releases the lock only when its body returns
exit_async_with_onReturn(l, exit) ==
    IF exit \in {"IOError", "ValueError"} THEN l ELSE release(l)

\* async with self.locks[filename]: the lock is released however the body
\* is left
exit_async_with(l, exit) == release(l)

\* the body of use_json runs in the mode the call was made with and is
\* left, by return or by raise
UseJsonReturns ==
    \E c \in CallerIds, mode \in Modes :
      /\ callers[c].pc = "critical"
      /\ \E exit \in Exits(mode) :
        /\ locks' = [locks EXCEPT ![callers[c].path] = exit_async_with(@, exit)]
        /\ callers' = [callers EXCEPT ![c] = IdleCaller]
        /\ ev' = [op |-> "use_json", path |-> callers[c].path, exit |-> exit]
        /\ UNCHANGED <<now, current_session, base_path_exists, disk, nextId, issued,
                       task>>

\* ---- the server bootstrap
\* mcp_server.main: logs and calls mcp.run("sse"), which serves requests until
\* the process ends. core.cleanup.cleanup_expired_sessions is imported by the
\* module, and nothing in it (no lifespan, no create_task) ever calls it.
main(tk) == [tk EXCEPT !.serving = TRUE]

Main ==
    /\ ~task.serving
    /\ task' = main(task)
    /\ ev' = Idle
    /\ UNCHANGED <<now, current_session, base_path_exists, disk, nextId, issued,
                   locks, callers>>

\* requests served by the running server
ServeStoreData == task.serving /\ StoreData

ServeReadData == task.serving /\ ReadData

\* ---- tool invocations under faults of their dependencies
\* the file system works, or every write and stat fails
Worlds == {World, FailingWorld}

\* a handle file becomes unreadable
DamageHandleFile ==
    \E i \in SessionIds :
      /\ base_path_exists
      /\ IsDir(disk, i)
      /\ \E h \in DOMAIN disk[i].files :
           /\ disk[i].files[h].kind = "ok"
           /\ disk' = [disk EXCEPT ![i].files[h] = CorruptFile]
      /\ UNCHANGED <<task, locks, callers>>
      /\ ev' = Idle
      /\ UNCHANGED <<now, current_session, base_path_exists, nextId, issued>>

CallUserLogin ==
    \E w \in Worlds :
      \E found \in Found(w, now), resp \in AuthResponses :
        /\ CanCreate(w, found)
        /\ LET r == user_login(w, now, found, resp)
           IN /\ Apply(r.w)
              /\ UNCHANGED <<task, locks, callers>>
              /\ ev' = [op |-> "call", tool |-> "user_login", ret |-> r.ret,
                        raised |-> r.raised, io_fails |-> w.io_fails,
                        resp |-> resp.kind]
        /\ UNCHANGED <<now, issued>>

CallBackendTool ==
    \E w \in Worlds, tool \in BackendTools :
      \E found \in Found(w, now) :
        \E refresh \in RefreshAnswers(w, now, found) :
          \E resp \in ToolAnswers(w, now, found, refresh, tool) :
            \E handle \in IF tool = "generate_territory_report" THEN ReadHandles ELSE {None} :
              LET r == backend_tool(w, now, found, refresh, tool, resp, handle)
              IN /\ FilesWithinBound(r.w)
                 /\ Apply(r.w)
                 /\ issued' = IF r.stored = None THEN issued
                              ELSE Issue(r.stored[1])
                 /\ UNCHANGED <<task, locks, callers>>
                 /\ ev' = [op |-> "call", tool |-> tool, ret |-> r.ret,
                           raised |-> r.raised, io_fails |-> w.io_fails,
                           resp |-> resp.kind]
                 /\ UNCHANGED now

CallListStoredData ==
    \E w \in Worlds :
      \E found \in Found(w, now) :
        LET r == list_stored_data(w, now, found)
        IN /\ Apply(r.w)
           /\ UNCHANGED <<task, locks, callers>>
           /\ ev' = [op |-> "call", tool |-> "list_stored_data", ret |-> r.ret,
                     raised |-> r.raised, io_fails |-> w.io_fails, resp |-> "unused"]
           /\ UNCHANGED <<now, issued>>

CallGetDataFromHandle ==
    \E w \in Worlds :
      \E found \in Found(w, now), handle \in ReadHandles :
        LET r == get_data_from_handle(w, now, found, handle)
        IN /\ Apply(r.w)
           /\ UNCHANGED <<task, locks, callers>>
           /\ ev' = [op |-> "call", tool |-> "get_data_from_handle", ret |-> r.ret,
                     raised |-> r.raised, io_fails |-> w.io_fails, resp |-> "unused"]
           /\ UNCHANGED <<now, issued>>

CallGetCurrentSessionLogs ==
    \E w \in Worlds :
      \E found \in Found(w, now), log \in LogFiles :
        LET r == get_current_session_logs(w, now, found, log)
        IN /\ Apply(r.w)
           /\ UNCHANGED <<task, locks, callers>>
           /\ ev' = [op |-> "call", tool |-> "get_current_session_logs", ret |-> r.ret,
                     raised |-> r.raised, io_fails |-> w.io_fails, resp |-> log]
           /\ UNCHANGED <<now, issued>>


\* ========================================================= specifications
\* the cleanup coroutine has not been called
NotStarted == [pc |-> "not_started", serving |-> FALSE]

\* no use_json call is in progress and no lock has been created
NoTaskNoCallers ==
    /\ task = NotStarted
    /\ locks = <<>>
    /\ callers = <<>>

EmptyDisk == [i \in SessionIds |-> NoEntry]

\* the state after construction, on a fresh machine
Init ==
    /\ now = 0
    /\ current_session = None
    /\ base_path_exists \in BOOLEAN
    /\ disk = EmptyDisk
    /\ nextId = 1
    /\ issued = {}
    /\ ev = Idle
    /\ NoTaskNoCallers

Next ==
    \/ TickSecond
    \/ TickHour
    \/ Restart
    \/ GetCurrentSession
    \/ GetValidIdToken
    \/ UserLogin
    \/ BackgroundCleanup

\* sessions, login and token refresh
Spec == Init /\ [][Next]_vars

NextTools ==
    \/ Restart
    \/ UserLogin
    \/ BackendTool

\* the backend-calling tools behind their login gate, at one instant: a token
\* with expiresIn = TokenBufferSeconds is stale as soon as it is stored
SpecTools == Init /\ [][NextTools]_vars

\* the nine registered tools, invoked while their dependencies fail
NextBoundary ==
    \/ Restart
    \/ DamageHandleFile
    \/ CallUserLogin
    \/ CallBackendTool
    \/ CallListStoredData
    \/ CallGetDataFromHandle
    \/ CallGetCurrentSessionLogs

SpecBoundary == Init /\ [][NextBoundary]_vars


\* the server as mcp_server starts it, serving requests while time passes
NextServer ==
    \/ Main
    \/ TickSecond
    \/ TickHour
    \/ ServeStoreData
    \/ ServeReadData

SpecServer == Init /\ [][NextServer]_vars

\* time passes and the server does start
SpecServerFair ==
    SpecServer /\ WF_vars(TickSecond) /\ WF_vars(TickHour) /\ WF_vars(Main)

\* concurrent use_json calls on one event loop
InitLock ==
    /\ now = 0
    /\ current_session = None
    /\ base_path_exists = TRUE
    /\ disk = EmptyDisk
    /\ nextId = 1
    /\ issued = {}
    /\ ev = Idle
    /\ task = NotStarted
    /\ locks = <<>>
    /\ callers = [c \in CallerIds |-> IdleCaller]

NextLock ==
    \/ UseJson
    \/ LockGranted
    \/ UseJsonReturns

SpecLock == InitLock /\ [][NextLock]_vars

\* the event loop runs a woken waiter, and the reads and writes handed to
\* worker threads come to an end: each call's steps are taken when they stay
\* possible
SpecLockFair ==
    /\ SpecLock
    /\ \A c \in CallerIds :
          /\ WF_vars(LockGranted /\ callers[c].pc = "waiting" /\ callers'[c].pc = "critical")
          /\ WF_vars(UseJsonReturns /\ callers[c].pc = "critical" /\ callers'[c].pc = "idle")

\* the cleanup coroutine, running over directories of several ages
TaskEntries(i) ==
    {NoEntry}
    \cup {Dir(JsonFile(SessionInfo(i, a)),
              JsonFile([last_access |-> Some(a), created_at |-> a]), a, NoFiles) :
            a \in {0 - SecondsPerHour, 0}}

InitTask ==
    /\ now = 0
    /\ current_session = None
    /\ base_path_exists = TRUE
    /\ disk \in [SessionIds -> UNION {TaskEntries(i) : i \in SessionIds}]
    /\ \A i \in SessionIds : disk[i] \in TaskEntries(i)
    /\ nextId = MaxSessions + 1
    /\ issued = {}
    /\ ev = Idle
    /\ task \in {Started(ttl) : ttl \in TtlValues}
    /\ locks = <<>>
    /\ callers = <<>>

NextTask ==
    \/ TickHour
    \/ CycleExpired
    \/ CycleLarge
    \/ CycleStats
    \/ CycleOldest
    \/ CycleRaises
    \/ NextCycle
    \/ CancelTask

SpecTask == InitTask /\ [][NextTask]_vars

\* the report helpers applied to each of their inputs
InitReport ==
    /\ now = 0
    /\ current_session = None
    /\ base_path_exists = TRUE
    /\ disk = EmptyDisk
    /\ nextId = 1
    /\ issued = {}
    /\ ev \in {[op |-> "cv", cv |-> cv] : cv \in CvValues}
             \cup {[op |-> "totals", total_customers |-> tc, clusters_created |-> n] :
                      tc \in TotalCustomers, n \in ClusterCounts}
    /\ NoTaskNoCallers

NextReport ==
    \/ AssessBalanceQuality
    \/ GenerateSyntheticTerritoryTable

SpecReport == InitReport /\ [][NextReport]_vars

NextHandle ==
    \/ TickHour
    \/ Restart
    \/ StoreData
    \/ ReadData

\* handle storage
SpecHandle == Init /\ [][NextHandle]_vars

\* ---- the disk scan over a storage root left behind by earlier runs
\* a non-directory entry of the storage root
PlainFile == [kind |-> "file"]

\* creation times of the sessions found at start-up: one TTL ago, a second
\* ago, just now
CreatedAtValues == {0 - session_ttl_hours * SecondsPerHour, 0 - 1, 0}

\* what an entry of the storage root can be when the server starts
ScanEntries(i) ==
    {NoEntry, PlainFile, Dir(NoFile, NoFile, 0, NoFiles), Dir(CorruptFile, NoFile, 0, NoFiles)}
    \cup {Dir(JsonFile(SessionInfo(i, c)), NoFile, 0, NoFiles) : c \in CreatedAtValues}

InitScan ==
    /\ now = 0
    /\ current_session = None
    /\ base_path_exists \in BOOLEAN
    /\ disk \in [SessionIds -> UNION {ScanEntries(i) : i \in SessionIds}]
    /\ \A i \in SessionIds : disk[i] \in ScanEntries(i)
    /\ ~base_path_exists => disk = EmptyDisk
    /\ nextId = MaxSessions + 1
    /\ issued = {}
    /\ ev = Idle
    /\ NoTaskNoCallers

NextScan ==
    \/ TickSecond
    \/ TickHour
    \/ Restart
    \/ GetCurrentSession

\* restoring the session from disk
SpecScan == InitScan /\ [][NextScan]_vars

\* ---- the retention sweeps over a storage root left behind by earlier runs
\* last-access and modification times of the directories found at start-up
PastTimes == {0 - SecondsPerHour, 0}

\* session_info.json: absent, unparsable (a process killed between the
\* truncation and the write of use_json "w" leaves it empty), or written by
\* _touch_session
InfoFiles ==
    {NoFile, CorruptFile}
    \cup {JsonFile([last_access |-> Some(a), created_at |-> a]) : a \in PastTimes}

SweepEntries(i) ==
    {NoEntry}
    \cup {Dir(JsonFile(SessionInfo(i, 0)), info, m, NoFiles) : info \in InfoFiles, m \in PastTimes}

InitSweep ==
    /\ now = 0
    /\ current_session = None
    /\ base_path_exists = TRUE
    /\ disk \in [SessionIds -> UNION {SweepEntries(i) : i \in SessionIds}]
    /\ \A i \in SessionIds : disk[i] \in SweepEntries(i)
    /\ nextId = MaxSessions + 1
    /\ issued = {}
    /\ ev = Idle
    /\ NoTaskNoCallers

NextSweep ==
    \/ TickSecond
    \/ TickHour
    \/ CleanupExpiredSessions
    \/ CleanupOldestSessions

\* the retention sweeps
SpecSweep == InitSweep /\ [][NextSweep]_vars

\* ---- the retention sweeps when shutil.rmtree refuses some directories
\* the per-directory try/except shared by the three sweeps: every directory
\* of targets is handed to _remove_directory_recursive; rmtree raises for the
\* ones in undeletable, the except clause appends one message to errors and
\* the loop goes on; the others are removed and counted in cleaned_count and
\* freed_bytes (counted)
remove_each(w, targets, undeletable) ==
    LET gone == targets \ undeletable
    IN [w |-> [w EXCEPT !.disk = [i \in SessionIds |-> IF i \in gone THEN NoEntry ELSE @[i]]],
        cleaned |-> Cardinality(gone),
        counted |-> gone,
        attempted |-> targets,
        errors |-> Cardinality(targets \cap undeletable)]

\* the sets of directories rmtree can refuse
Undeletable == SUBSET SessionIds

\* a sweep's result as the event of the step that ran it
SweepEvent(kind, r, undeletable) ==
    [op |-> "sweep", kind |-> kind, cleaned |-> r.cleaned, counted |-> r.counted,
     attempted |-> r.attempted, errors |-> r.errors, undeletable |-> undeletable]

\* cleanup_expired_sessions over a root where rmtree can fail
ExpiredSweep ==
    \E max_age_hours \in MaxAgeHours, undeletable \in Undeletable :
        LET r == remove_each(World, ExpiredDirs(World, now, max_age_hours), undeletable)
        IN /\ Apply(r.w)
           /\ ev' = SweepEvent("expired", r, undeletable)
           /\ UNCHANGED <<now, issued, task, locks, callers>>

\* cleanup_large_sessions; big is the set of directories whose computed size
\* is above max_size_mb
LargeSweep ==
    \E big \in SUBSET AllDirs(World), undeletable \in Undeletable :
        LET r == remove_each(World, big, undeletable)
        IN /\ Apply(r.w)
           /\ ev' = SweepEvent("large", r, undeletable)
           /\ UNCHANGED <<now, issued, task, locks, callers>>

\* cleanup_oldest_sessions: the sorted list past keep_count
OldestSweep ==
    \E keep_count \in 0..MaxSessions, undeletable \in Undeletable :
      \E order \in SortedNewestFirst(World) :
        LET r == remove_each(World,
                             {order[k] : k \in {k \in DOMAIN order : k > keep_count}},
                             undeletable)
        IN /\ Apply(r.w)
           /\ ev' = SweepEvent("oldest", r, undeletable)
           /\ UNCHANGED <<now, issued, task, locks, callers>>

NextFaultySweep ==
    \/ TickHour
    \/ ExpiredSweep
    \/ LargeSweep
    \/ OldestSweep

\* the retention sweeps with failing removals
SpecFaultySweep == InitSweep /\ [][NextFaultySweep]_vars

\* ---- generate_report: the results table
\* territories of a stored analysis: territory_id and potential_customers
PotentialCustomers == {0, 100, 200}
TerritoryAnalytics ==
    UNION {[1..n -> [territory_id : {1}, potential_customers : PotentialCustomers]] :
              n \in 0..MaxTerritories}

\* extract_territory_metrics: {} for an empty list, else the customer counts
extract_territory_metrics(territory_analytics) ==
    IF territory_analytics = <<>> THEN [customer_counts |-> <<>>, total_potential |-> 0]
    ELSE [customer_counts |->
              [k \in DOMAIN territory_analytics |-> territory_analytics[k].potential_customers],
          total_potential |->
              LET Sum[k \in 0..Len(territory_analytics)] ==
                      IF k = 0 THEN 0
                      ELSE Sum[k - 1] + territory_analytics[k].potential_customers
              IN Sum[Len(territory_analytics)]]

\* generate_territory_table: the rows under the header, "" (no header, no
\* rows) for an empty list
generate_territory_table(territory_analytics, total_potential) ==
    IF territory_analytics = <<>> THEN <<>>
    ELSE [k \in DOMAIN territory_analytics |->
             [tid |-> territory_analytics[k].territory_id,
              customers |-> territory_analytics[k].potential_customers]]

\* generate_common_sections, sections["results_table"]: which generator was
\* called and the rows it returned
generate_common_sections(total_customers, territory_metrics, clusters_created) ==
    IF territory_metrics.customer_counts # <<>>
    THEN [by |-> "generate_territory_table",
          rows |-> generate_territory_table(<<>>, territory_metrics.total_potential)]
    ELSE [by |-> "generate_synthetic_territory_table",
          rows |-> generate_synthetic_territory_table(total_customers, clusters_created)]

\* generate_academic_comprehensive_report up to report += results_table
GenerateTerritoryReport ==
    /\ ev.op = "analysis"
    /\ ev' = [op |-> "generate_territory_report",
              territory_analytics |-> ev.territory_analytics,
              clusters_created |-> ev.clusters_created,
              results_table |-> generate_common_sections(
                                    ev.total_customers,
                                    extract_territory_metrics(ev.territory_analytics),
                                    ev.clusters_created)]
    /\ UNCHANGED <<now, current_session, base_path_exists, disk, nextId, issued,
                   task, locks, callers>>

\* the stored analyses the report is generated from
InitTable ==
    /\ now = 0
    /\ current_session = None
    /\ base_path_exists = TRUE
    /\ disk = EmptyDisk
    /\ nextId = 1
    /\ issued = {}
    /\ ev \in {[op |-> "analysis", territory_analytics |-> ta, total_customers |-> tc,
                clusters_created |-> n] :
                  ta \in TerritoryAnalytics, tc \in TotalCustomers, n \in ClusterCounts}
    /\ NoTaskNoCallers

NextTable == GenerateTerritoryReport

SpecTable == InitTable /\ [][NextTable]_vars

\* ---- several users of one server process
\* the people calling the tools, their accounts at the backend and the id
\* tokens the backend issues to each of them
Accounts == {"alice", "bob"}
TokensOf(u) == IF u = "alice" THEN {"a1", "a2"} ELSE {"b1", "b2"}

\* answers of the login endpoint to the credentials of user u
LoginAnswers(u) ==
    {[kind |-> "non200"]}
    \cup {[kind |-> "ok", localId |-> u, idToken |-> k, refreshToken |-> k,
           expiresIn |-> e] : k \in TokensOf(u), e \in ExpiresInValues}

\* answers of the refresh endpoint: a failure, or a new token for the user
\* the refresh token belongs to
RefreshAnswersFor(w, t, found) ==
    LET g == get_current_session(w, t, found)
    IN IF g.ret # None /\ NeedsRefresh(g.ret[1], t)
       THEN {[kind |-> "non200"]}
            \cup {[kind |-> "ok", localId |-> g.ret[1].user_id[1], idToken |-> k,
                   refreshToken |-> k, expiresIn |-> TokenBufferSeconds + 1] :
                     k \in TokensOf(g.ret[1].user_id[1])}
       ELSE {[kind |-> "unused"]}

\* ev.granted is the last grant of the backend (a login or a refresh that
\* succeeded): who asked, and the localId and idToken of the answer;
\* ev.earlier is the grant before it
NoGrant == [op |-> "none", granted |-> None, earlier |-> None]
Grant(caller, resp) ==
    Some([caller |-> caller, localId |-> resp.localId, idToken |-> resp.idToken])

\* user_login called by caller with their own credentials
LoginAs(caller) ==
    \E found \in Found(World, now) :
      \E resp \in LoginAnswers(caller) :
        /\ CanCreate(World, found)
        /\ LET r == user_login(World, now, found, resp)
           IN /\ Apply(r.w)
              /\ ev' = [op |-> "user_login", caller |-> caller, ret |-> r.ret,
                        granted |-> IF r.ret = "login_successful"
                                    THEN Grant(caller, resp) ELSE ev.granted,
                        earlier |-> IF r.ret = "login_successful"
                                    THEN ev.granted ELSE ev.earlier]
        /\ UNCHANGED <<now, issued, task, locks, callers>>

\* a backend-calling tool called by caller; as_user and bearer are the
\* user_id and id_token get_valid_id_token handed to the tool, which the
\* tool puts into its request
ToolAs(caller) ==
    \E tool \in BackendTools \ {"generate_territory_report"} :
      \E found \in Found(World, now) :
        \E refresh \in RefreshAnswersFor(World, now, found) :
          \E resp \in ToolAnswers(World, now, found, refresh, tool) :
            LET r == backend_tool(World, now, found, refresh, tool, resp, None)
                v == get_valid_id_token(World, now, found, refresh)
                refreshed == refresh.kind = "ok" /\ v.id_token # None
            IN /\ FilesWithinBound(r.w)
               /\ Apply(r.w)
               /\ issued' = IF r.stored = None THEN issued ELSE Issue(r.stored[1])
               /\ ev' = [op |-> "tool", caller |-> caller, ret |-> r.ret,
                         http |-> r.http, as_user |-> v.user_id, bearer |-> v.id_token,
                         granted |-> IF refreshed
                                     THEN Grant(ev.granted[1].caller, refresh)
                                     ELSE ev.granted,
                         earlier |-> ev.earlier]
               /\ UNCHANGED <<now, task, locks, callers>>

\* the server process restarts between two calls
RestartServer ==
    /\ current_session # None
    /\ current_session' = None
    /\ ev' = [op |-> "restart", granted |-> ev.granted, earlier |-> ev.earlier]
    /\ UNCHANGED <<now, base_path_exists, disk, nextId, issued, task, locks, callers>>

InitShared ==
    /\ now = 0
    /\ current_session = None
    /\ base_path_exists \in BOOLEAN
    /\ disk = EmptyDisk
    /\ nextId = 1
    /\ issued = {}
    /\ ev = NoGrant
    /\ NoTaskNoCallers

NextShared ==
    \/ \E caller \in Accounts : LoginAs(caller)
    \/ \E caller \in Accounts : ToolAs(caller)
    \/ RestartServer

\* two users and one server process
SpecShared == InitShared /\ [][NextShared]_vars

\* ---- create_session and the two readings of the clock
\* SessionInfo(session_id=..., expires_at=datetime.now() + timedelta(...)):
\* the argument expires_at is evaluated before the constructor runs, and the
\* constructor then fills created_at from default_factory=datetime.now; the
\* clock has advanced by elapsed between the two readings
create_session_elapsed(w, t, elapsed) ==
    LET c == create_session(w, t)
        s == [c.ret EXCEPT !.created_at = t + elapsed]
    IN IF c.raised THEN [c EXCEPT !.ret = s]
       ELSE [w |-> [c.w EXCEPT !.cur = Some(s),
                               !.disk[s.session_id].meta = JsonFile(s),
                               !.disk[s.session_id].mtime = t + elapsed],
             ret |-> s, raised |-> FALSE]

\* the clock readings of one create_session call: the same instant, or the
\* next one
Elapsed == {d \in {0, 1} : d = 0 \/ now % SecondsPerHour < MaxSeconds}

\* a tool finds no session and calls create_session
CreateSession ==
    \E found \in Found(World, now), elapsed \in Elapsed :
        /\ get_current_session(World, now, found).ret = None
        /\ nextId <= MaxSessions
        /\ LET r == create_session_elapsed(World, now, elapsed)
           IN /\ Apply(r.w)
              /\ now' = now + elapsed
              /\ ev' = [op |-> "create_session", ret |-> r.ret]
        /\ UNCHANGED <<issued, task, locks, callers>>

NextExpiry ==
    \/ Restart
    \/ CreateSession
    \/ GetCurrentSession
    \/ UserLogin
    \/ GetValidIdToken
    \/ StoreData
    \/ ReadData

\* the life of a session from its creation on
SpecExpiry == Init /\ [][NextExpiry]_vars

\* ---- the in-memory slot and the directories removed under it
\* SessionManager.cleanup_session: the directory is removed if it exists;
\* current_session is not looked at
cleanup_session(w, sid) ==
    [w |-> IF w.root /\ IsDir(w.disk, sid)
           THEN [w EXCEPT !.disk[sid] = NoEntry] ELSE w,
     raised |-> FALSE]

\* SessionManager.load_session: an unexpired session becomes the current
\* one, an expired one is cleaned up; use_json raises on an unparsable file
load_session(w, t, sid) ==
    LET isdir == w.root /\ IsDir(w.disk, sid)
    IN IF isdir /\ w.disk[sid].meta.kind = "corrupt"
       THEN [w |-> w, ret |-> None, raised |-> TRUE]
       ELSE IF ~isdir \/ w.disk[sid].meta.kind = "absent"
       THEN [w |-> w, ret |-> None, raised |-> FALSE]
       ELSE LET s == w.disk[sid].meta.content
            IN IF t < s.expires_at
               THEN [w |-> [w EXCEPT !.cur = Some(s)], ret |-> Some(s), raised |-> FALSE]
               ELSE [w |-> cleanup_session(w, sid).w, ret |-> None, raised |-> FALSE]

CleanupSession ==
    \E sid \in SessionIds :
        LET r == cleanup_session(World, sid)
        IN /\ Apply(r.w)
           /\ ev' = [op |-> "cleanup_session", session_id |-> sid]
           /\ UNCHANGED <<now, issued, task, locks, callers>>

LoadSession ==
    \E sid \in SessionIds :
        LET r == load_session(World, now, sid)
        IN /\ Apply(r.w)
           /\ ev' = [op |-> "load_session", session_id |-> sid, ret |-> r.ret,
                     raised |-> r.raised]
           /\ UNCHANGED <<now, issued, task, locks, callers>>

NextSlot ==
    \/ TickHour
    \/ Restart
    \/ CreateSession
    \/ GetCurrentSession
    \/ ExpiredSweep
    \/ LargeSweep
    \/ OldestSweep
    \/ CleanupSession
    \/ LoadSession

\* the current session and the operations that remove session directories
SpecSlot == Init /\ [][NextSlot]_vars

\* ---- tool invocations running concurrently on the event loop
\* create_session up to its first suspension: the directory is made and the
\* SessionInfo built, then await use_json(metadata_path, "w", ...) hands the
\* serialisation and the write to worker threads and the coroutine is
\* suspended; session_metadata.json is not there yet and current_session
\* is not assigned yet
create_session_suspended(w, t) ==
    LET c == create_session(w, t)
    IN [w |-> [c.w EXCEPT !.cur = w.cur,
                          !.disk[c.ret.session_id].meta = NoFile],
        session |-> c.ret]

\* create_session after use_json has returned: the metadata file is written,
\* then self.current_session = session_info
create_session_resumed(w, s) ==
    [w EXCEPT !.cur = Some(s),
              !.disk[s.session_id] =
                  IF w.root /\ IsDir(w.disk, s.session_id)
                  THEN [@ EXCEPT !.meta = JsonFile(s)]
                  ELSE @]

\* store_data once it has its session: mkdir(exist_ok=True), the handle file,
\* _touch_session
store_data_in(w, t, sid, data_type, location, data) ==
    LET w1 == IF w.root /\ IsDir(w.disk, sid) THEN w
              ELSE [w EXCEPT !.root = TRUE,
                             !.disk[sid] = Dir(NoFile, NoFile, t, NoFiles)]
        handle == HandleName(data_type, location, t, sid)
        w2 == [w1 EXCEPT !.disk[sid].files = (handle :> JsonFile(to_serializable(data))) @@ @]
    IN touch_session(w2, t, sid)

\* the tools invoked concurrently
RacingTools == {"user_login", "store_data"}

\* an invocation that has not been made yet
NotInvoked == [pc |-> "idle"]

\* a tool is invoked: get_current_session, and create_session up to its
\* suspension when there is no session
Invoke ==
    \E c \in CallerIds, tool \in RacingTools :
      \E found \in Found(World, now) :
        /\ callers[c].pc = "idle"
        /\ LET g == get_current_session(World, now, found)
           IN IF g.ret # None
              THEN /\ Apply(g.w)
                   /\ callers' = [callers EXCEPT ![c] =
                          [pc |-> "has_session", tool |-> tool, session |-> g.ret[1],
                           created |-> FALSE]]
              ELSE /\ nextId <= MaxSessions
                   /\ LET r == create_session_suspended(g.w, now)
                      IN /\ Apply(r.w)
                         /\ callers' = [callers EXCEPT ![c] =
                                [pc |-> "creating", tool |-> tool, session |-> r.session,
                                 created |-> TRUE]]
        /\ UNCHANGED <<now, issued, ev, task, locks>>

\* use_json returns to a suspended create_session
CreateSessionReturns ==
    \E c \in CallerIds :
        /\ callers[c].pc = "creating"
        /\ Apply(create_session_resumed(World, callers[c].session))
        /\ callers' = [callers EXCEPT ![c].pc = "has_session"]
        /\ UNCHANGED <<now, issued, ev, task, locks>>

\* the login endpoint answers a user_login that has its session
LoginAnswered ==
    \E c \in CallerIds :
      \E resp \in LoginAnswers("alice") :
        /\ callers[c].pc = "has_session"
        /\ callers[c].tool = "user_login"
        /\ LET sid == callers[c].session.session_id
               u == IF resp.kind = "ok"
                    THEN update_session_auth(World, now, sid, resp.localId, resp.idToken,
                                             resp.refreshToken, resp.expiresIn)
                    ELSE [w |-> World, raised |-> FALSE, found |-> FALSE]
               ret == IF resp.kind # "ok" THEN "login_failed"
                      ELSE tool_boundary([ret |-> "login_successful", raised |-> u.raised],
                                         "internal_error").ret
           IN /\ Apply(u.w)
              /\ callers' = [callers EXCEPT ![c] = [@ EXCEPT !.pc = "done"] @@ [ret |-> ret]]
        /\ UNCHANGED <<now, issued, ev, task, locks>>

\* a store_data that has its session writes its file
DataStored ==
    \E c \in CallerIds :
        /\ callers[c].pc = "has_session"
        /\ callers[c].tool = "store_data"
        /\ LET w == store_data_in(World, now, callers[c].session.session_id,
                                   "geospatial_data", "y", PyList(<<>>))
           IN Apply(w)
        /\ callers' = [callers EXCEPT ![c] = [@ EXCEPT !.pc = "done"] @@ [ret |-> "stored"]]
        /\ UNCHANGED <<now, issued, ev, task, locks>>

InitRace ==
    /\ now = 0
    /\ current_session = None
    /\ base_path_exists \in BOOLEAN
    /\ disk = EmptyDisk
    /\ nextId = 1
    /\ issued = {}
    /\ ev = Idle
    /\ task = NotStarted
    /\ locks = <<>>
    /\ callers = [c \in CallerIds |-> NotInvoked]

NextRace ==
    \/ Invoke
    \/ CreateSessionReturns
    \/ LoginAnswered
    \/ DataStored

\* concurrent tool invocations on a server that has no session yet
SpecRace == InitRace /\ [][NextRace]_vars

\* ---- the age sweep of the background task among sessions in use
\* store_data called with one fixed document
StoreDocument ==
    \E found \in Found(World, now) :
        /\ CanCreate(World, found)
        /\ LET r == store_data(World, now, found, "geospatial_data", "y", PyList(<<>>))
           IN /\ FilesWithinBound(r.w)
              /\ Apply(r.w)
              /\ issued' = Issue([handle |-> r.ret, session |-> r.sid,
                                  data |-> PyList(<<>>)])
              /\ ev' = [op |-> "store_data", handle |-> r.ret, session |-> r.sid,
                        data |-> PyList(<<>>)]
        /\ UNCHANGED <<now, task, locks, callers>>

\* update_session_auth called for a session directory with the tokens of
\* one login
UpdateSessionAuth ==
    \E sid \in SessionIds :
        LET r == update_session_auth(World, now, sid, "alice", "t1", "t1",
                                     TokenBufferSeconds + 1)
        IN /\ Apply(r.w)
           /\ ev' = [op |-> "update_session_auth", session_id |-> sid,
                     found |-> r.found]
           /\ UNCHANGED <<now, issued, task, locks, callers>>

NextLive ==
    \/ TickSecond
    \/ TickHour
    \/ Restart
    \/ CreateSession
    \/ StoreDocument
    \/ ReadData
    \/ UpdateSessionAuth
    \/ BackgroundCleanup

\* sessions are created and used while the age sweep runs with
\* max_age_hours = session_ttl_hours
SpecLive == Init /\ [][NextLive]_vars

\* ================================================================= claims

\* ---- C1
\* C1: a session is invalid once now >= expires_at, cached in memory or not:
\* get_current_session never returns a session whose expires_at has been
\* reached, and get_valid_id_token never hands out a token of such a session.
C1_NoExpiredSessionYielded ==
    /\ (ev.op = "get_current_session" /\ ev.ret # None)
          => now < ev.ret[1].expires_at
    /\ (ev.op = "get_valid_id_token" /\ ev.id_token # None)
          => (current_session # None /\ now < current_session[1].expires_at)

\* ---- C2
\* the valid sessions of the storage root, read off the disk
ParseableUnexpired ==
    {i \in SessionIds :
        /\ base_path_exists
        /\ disk[i].kind = "dir"
        /\ disk[i].meta.kind = "ok"
        /\ now < disk[i].meta.content.expires_at}

\* C2: with no session in memory, get_current_session returns a session iff
\* some session directory has parseable metadata with now < expires_at; it
\* returns the most recently created such session and installs it in memory;
\* otherwise it returns nothing.
C2_DiskScan ==
    (ev.op = "get_current_session" /\ ev.scanned) =>
        /\ ev.ret # None <=> ParseableUnexpired # {}
        /\ ev.ret # None =>
              /\ \E i \in ParseableUnexpired : ev.ret[1] = disk[i].meta.content
              /\ \A j \in ParseableUnexpired :
                    disk[j].meta.content.created_at <= ev.ret[1].created_at
              /\ current_session = ev.ret
        /\ ev.ret = None => current_session = None

\* the scan chose the younger of two valid sessions
C2_Witness ==
    /\ ev.op = "get_current_session" /\ ev.scanned /\ ev.ret # None
    /\ \E j \in ParseableUnexpired :
          disk[j].meta.content.created_at < ev.ret[1].created_at

\* ---- C3
\* the session is logged in and its id token is absent, has no recorded
\* expiry, or has reached it
TokenStale(sess, t) ==
    \/ sess.id_token = None
    \/ sess.token_expires_at = None
    \/ t >= sess.token_expires_at[1]

RECURSIVE IsJson(_)
\* a payload made of objects, arrays, strings and numbers only
IsJson(obj) ==
    IF obj.t \in {"dict", "list"}
    THEN \A k \in DOMAIN obj.elems : IsJson(obj.elems[k])
    ELSE obj.t \in {"int", "str"}

\* what was given out for a handle, if anything
IssuedFor(handle) == {h \in issued : h.handle = handle}

\* C4: for every JSON payload, empty or not, read_data of the handle that
\* store_data returned, in the same session, returns a value equal to the
\* payload; read_data of a handle never stored returns nothing.
C4_RoundTrip ==
    ev.op = "read_data" =>
        /\ \A h \in IssuedFor(ev.handle) :
              (/\ IsJson(h.data)
               /\ current_session # None
               /\ current_session[1].session_id = h.session)
                  => ev.ret = Some(h.data)
        /\ IssuedFor(ev.handle) = {} => ev.ret = None

\* ---- C5
\* C5: a handle created while session A is current does not resolve once a
\* different session B is current: read_data returns nothing.
C5_HandleIsolation ==
    ev.op = "read_data" =>
        \A h \in IssuedFor(ev.handle) :
            (current_session = None \/ current_session[1].session_id # h.session)
                => ev.ret = None

\* a handle of session A, its file still on disk, was read under session B
C5_Witness ==
    /\ ev.op = "read_data"
    /\ ev.ret = None
    /\ \E h \in IssuedFor(ev.handle) :
          /\ current_session # None
          /\ current_session[1].session_id # h.session
          /\ disk[h.session].kind = "dir"
          /\ ev.handle \in DOMAIN disk[h.session].files
          /\ Truthy(disk[h.session].files[ev.handle].content)

\* ---- C6
\* the last-access time of a session directory: last_access of
\* session_info.json, else the directory's modification time
LastAccessOrMtime(d) ==
    IF d.info.kind = "ok" /\ d.info.content.last_access # None
    THEN d.info.content.last_access[1]
    ELSE d.mtime

SessionDirs == {i \in SessionIds : base_path_exists /\ disk[i].kind = "dir"}

\* C6: cleanup_expired_sessions(max_age_hours=H) removes exactly the session
\* directories whose last-access time (last_access of session_info.json, else
\* the directory modification time) is earlier than now - H, leaves every
\* other directory untouched, and returns cleaned = the number removed.
C6_RetentionByAge ==
    [][ev'.op = "cleanup_expired_sessions" =>
          LET old == {i \in SessionDirs :
                        LastAccessOrMtime(disk[i])
                            < now - ev'.max_age_hours * SecondsPerHour}
          IN /\ \A i \in SessionIds :
                   disk'[i] = IF i \in old THEN NoEntry ELSE disk[i]
             /\ ev'.cleaned = Cardinality(old)
      ]_vars

\* ---- C7
\* C7: cleanup_oldest_sessions(keep_count=K) over N session directories
\* removes exactly the max(0, N-K) least recently accessed ones and leaves
\* the K most recently accessed ones untouched.
C7_RetentionByCount ==
    [][ev'.op = "cleanup_oldest_sessions" =>
          LET gone == {i \in SessionDirs : disk'[i].kind # "dir"}
              kept == SessionDirs \ gone
              N == Cardinality(SessionDirs)
              K == ev'.keep_count
          IN /\ Cardinality(gone) = IF N > K THEN N - K ELSE 0
             /\ \A g \in gone, k \in kept :
                   LastAccessOrMtime(disk[g]) <= LastAccessOrMtime(disk[k])
             /\ \A k \in kept : disk'[k] = disk[k]
      ]_vars

\* ---- C8
\* no session exists, or the session a tool would resolve has never logged in
NoLogin ==
    IF current_session # None
    THEN current_session[1].refresh_token = None \/ current_session[1].user_id = None
    ELSE \A i \in ParseableUnexpired :
            \/ disk[i].meta.content.refresh_token = None
            \/ disk[i].meta.content.user_id = None

\* C8: a backend-calling tool invoked when no session exists or the current
\* session has never logged in returns the not-logged-in message and sends no
\* HTTP request.
C8_LoginGate ==
    [][(ev'.op = "tool" /\ NoLogin) =>
          (ev'.ret = "not_logged_in" /\ ev'.http = <<>>)]_vars

\* a tool was turned away with a session that never logged in
C8_Witness ==
    /\ ev.op = "tool"
    /\ ev.ret = "not_logged_in"
    /\ ev.http = <<>>
    /\ current_session # None
    /\ current_session[1].refresh_token = None

AuthFields(sess) ==
    <<sess.user_id, sess.id_token, sess.refresh_token, sess.token_expires_at>>

HandleFiles(d) == [i \in DOMAIN d |-> IF IsDir(d, i) THEN d[i].files ELSE NoFiles]

\* C12: hub_expansion_analyzer, when the hub endpoint answers with a non-200
\* status or the request raises, returns the error document (report_file "",
\* metadata.error true) and stores no handle.
C12_HubFailure ==
    [][(/\ ev'.op = "tool"
        /\ ev'.tool = "hub_expansion_analyzer"
        /\ ev'.resp \in {[kind |-> "non200"], [kind |-> "exception"]})
       => (/\ ev'.ret = "error_envelope"
           /\ ~ev'.raised
           /\ issued' = issued
           /\ HandleFiles(disk') = HandleFiles(disk))]_vars

\* the hub endpoint answered with a non-200 status and the tool returned the
\* error document
C12_Witness ==
    /\ ev.op = "tool"
    /\ ev.tool = "hub_expansion_analyzer"
    /\ ev.resp = [kind |-> "non200"]
    /\ ev.ret = "error_envelope"
    /\ Endpoint("hub_expansion_analyzer") \in {ev.http[k] : k \in DOMAIN ev.http}

\* ---- C13
\* the strings a tool returns, by what they report
ToolStrings ==
    {"not_logged_in", "login_successful", "login_failed", "malformed_response",
     "internal_error", "error_status", "no_data", "data_stored", "error_exception",
     "error_retrieving", "invalid_data", "report_saved", "error_envelope",
     "analysis", "no_session", "no_files", "listing", "error_listing", "content",
     "error_reading", "no_log_file", "log_lines", "error_reading_logs"}

\* C13: every registered tool, whatever its dependencies do (backend non-200,
\* transport exception, malformed body, missing or unreadable handle file,
\* failing storage), returns a string and raises nothing.
C13_NoFaultCrossesBoundary ==
    ev.op = "call" => (~ev.raised /\ ev.ret \in ToolStrings)

\* a tool met a fault in its body and answered with its error string
C13_Witness ==
    /\ ev.op = "call"
    /\ ~ev.raised
    /\ \/ ev.tool = "get_data_from_handle" /\ ev.ret = "error_reading"
       \/ ev.tool = "fetch_geospatial_data" /\ ev.io_fails /\ ev.resp = "ok"
          /\ ev.ret = "error_exception"

\* ---- C14
\* whether a session directory is on disk
OnDisk(i) == base_path_exists /\ IsDir(disk, i)

\* C14: the background cleanup task is started when the server starts and keeps
\* running while the server serves requests, so every session directory whose
\* last access is older than the configured TTL is eventually removed from disk.
C14_ExpiredEventuallyRemoved ==
    \A i \in SessionIds :
        (i \in ExpiredDirs(World, now, session_ttl_hours)) ~> ~OnDisk(i)

\* the part of C14 about the start of the task: a serving server has called
\* the cleanup coroutine
C14_TaskStarted == task.serving => task.pc # "not_started"

\* ---- C15
\* the use_json calls inside their critical section for a path
InCriticalSection(file_path) ==
    {c \in DOMAIN callers : callers[c].pc = "critical" /\ callers[c].path = file_path}

\* C15: at any time at most one use_json operation, read or write, is inside
\* its critical section for a given file path.
C15_MutualExclusion ==
    \A file_path \in Paths : Cardinality(InCriticalSection(file_path)) <= 1

\* one call holds the lock of a path while a second call on that path waits
\* and a third call is inside its critical section for another path
C15_Witness ==
    \E c1, c2, c3 \in DOMAIN callers :
        /\ callers[c1].pc = "critical"
        /\ callers[c2].pc = "waiting"
        /\ callers[c2].path = callers[c1].path
        /\ callers[c3].pc = "critical"
        /\ callers[c3].path # callers[c1].path

\* ---- C16
\* C16: cancellation of the background task at any of its suspension points
\* (inside a cycle, during the sleep between cycles, during the 300-second
\* backoff sleep) makes the task function return normally.
C16_CancelReturnsNormally ==
    (task.pc # "not_started" /\ task.cancelled_at # None) => task.pc = "returned"

\* ---- C19
\* C19: a cycle that reaches its sleep has run, in this order, the expired
\* sweep (max_age_hours = the configured TTL, or 24 if unset), the large
\* sweep (100 MB) and the storage statistics; it has run the keep-newest-50
\* sweep after them if and only if the statistics reported more than 500 MB;
\* and it sleeps cleanup_interval_hours x 3600 seconds.
C19_CycleOrder ==
    task.pc = "sleep" =>
        LET c == task.calls
        IN /\ Len(c) \in {3, 4}
           /\ c[1] = [op |-> "cleanup_expired_sessions",
                      arg |-> IF task.ttl = 0 THEN 24 ELSE task.ttl]
           /\ c[2] = [op |-> "cleanup_large_sessions", arg |-> 100]
           /\ c[3].op = "get_storage_stats"
           /\ (Len(c) = 4) <=> (c[3].arg > 500)
           /\ Len(c) = 4 => c[4] = [op |-> "cleanup_oldest_sessions", arg |-> 50]
           /\ task.slept = cleanup_interval_hours * 3600

\* a cycle whose statistics reported more than 500 MB ran the keep-newest
\* sweep and went to sleep, with the TTL unset
C19_Witness ==
    /\ task.pc = "sleep"
    /\ task.ttl = 0
    /\ Len(task.calls) = 4
    /\ task.calls[3].arg = 501

\* ---- C20
\* C20: a cycle that raises an exception other than cancellation puts the
\* task into a 300-second sleep; the only way out of that sleep, short of
\* cancellation, is the start of another cycle once the 300 seconds are over;
\* and the task ends only by cancellation, however many cycles have failed.
C20_FailureRetried ==
    [][/\ (task.pc \in CycleSteps /\ task'.failures = task.failures + 1)
            => (/\ task'.pc = "backoff"
                /\ task'.slept = 300
                /\ task'.wake_at = now + 300)
       /\ (task.pc = "backoff" /\ task'.pc # "backoff" /\ task'.cancelled_at = None)
            => (/\ task'.pc = "expired"
                /\ task'.calls = <<>>
                /\ now >= task.wake_at)
       /\ task'.pc \in {"returned", "cancelled"} => task'.cancelled_at # None
      ]_vars

\* two cycles in a row have failed and the task, not cancelled, is in its
\* second backoff sleep
C20_Witness ==
    /\ task.pc = "backoff"
    /\ task.failures = 2
    /\ task.cancelled_at = None

\* ---- C17
\* C17: assess_balance_quality(cv) is Excellent when cv < 0.10, Good when
\* 0.10 <= cv < 0.20, Acceptable when 0.20 <= cv < 0.30 and Needs Improvement
\* when cv >= 0.30 (cv in thousandths).
C17_BalanceQuality ==
    ev.op = "assess_balance_quality" =>
        /\ (ev.ret = "Excellent") <=> (ev.cv < 100)
        /\ (ev.ret = "Good") <=> (100 <= ev.cv /\ ev.cv < 200)
        /\ (ev.ret = "Acceptable") <=> (200 <= ev.cv /\ ev.cv < 300)
        /\ (ev.ret = "Needs Improvement") <=> (ev.cv >= 300)

\* a coefficient of variation of exactly 0.30 was classified
C17_Witness ==
    /\ ev.op = "assess_balance_quality"
    /\ ev.cv = 300
    /\ ev.ret = "Needs Improvement"

\* ---- C18
RECURSIVE SumSeq(_)
SumSeq(q) == IF q = <<>> THEN 0 ELSE Head(q) + SumSeq(Tail(q))

\* C18: with total_customers = T and clusters_created = n > 0 the synthetic
\* table has n rows, row i has (T/n) x 0.85, 1.00 or 1.15 customers for
\* i mod 3 = 0, 1, 2 (whole customers), and the market shares of the rows,
\* customers / T x 100, sum to 100% within rounding (half a percentage point).
C18_SyntheticTable ==
    (ev.op = "generate_synthetic_territory_table" /\ ev.clusters_created > 0) =>
        LET T == ev.total_customers
            n == ev.clusters_created
            Multiplier(i) == IF i % 3 = 0 THEN 85 ELSE IF i % 3 = 1 THEN 100 ELSE 115
        IN /\ Len(ev.customers) = n
           /\ \A i \in 0..(n - 1) :
                ev.customers[i + 1] = (T * Multiplier(i)) \div (n * 100)
           /\ 200 * (T - SumSeq(ev.customers)) <= T
           /\ 200 * (SumSeq(ev.customers) - T) <= T

\* ---- C21
\* the directories a sweep could not examine: session_info.json is there and
\* cannot be parsed, so the last-access time cannot be read
Unexaminable == {i \in SessionDirs : disk[i].info.kind = "corrupt"}

\* C21: in each of the three sweeps, a failure while examining or deleting
\* one session directory adds one string to errors, leaves that session out
\* of cleaned and freed bytes, and every other directory the sweep set out
\* to remove is removed.
C21_SweepFaultTolerance ==
    [][ev'.op = "sweep" =>
          LET failed == (IF ev'.kind = "large" THEN {} ELSE Unexaminable)
                        \cup (ev'.attempted \cap ev'.undeletable)
          IN /\ ev'.errors = Cardinality(failed)
             /\ ev'.counted \cap failed = {}
             /\ \A i \in ev'.attempted \ failed : disk'[i] = NoEntry
      ]_vars

\* ---- C22
\* C22: whenever the stored analysis has a non-empty territory_analytics
\* list, the results table of the report has exactly one row per territory
\* of that list; the synthetic table is produced only when the list is empty.
C22_TerritoryTable ==
    ev.op = "generate_territory_report" =>
        /\ ev.territory_analytics # <<>> =>
               Len(ev.results_table.rows) = Len(ev.territory_analytics)
        /\ ev.results_table.by = "generate_synthetic_territory_table" =>
               ev.territory_analytics = <<>>

\* ---- C23
\* C23: when the token-refresh request answers non-200 or raises (a 200 body
\* lacking the expected fields included), get_valid_id_token returns
\* (nothing, nothing), and the auth fields of the session (user_id, id_token,
\* refresh_token, token_expires_at) are what they were, in memory and in
\* every metadata file.
C23_RefreshFailure ==
    [][(/\ ev'.op = "get_valid_id_token"
        /\ ev'.http = <<"token/refresh">>
        /\ ev'.refresh.kind # "ok") =>
          /\ ev'.user_id = None
          /\ ev'.id_token = None
          /\ current_session' # None
          /\ LET sid == current_session'[1].session_id
             IN AuthFields(current_session'[1]) =
                    IF current_session # None
                    THEN AuthFields(current_session[1])
                    ELSE AuthFields(disk[sid].meta.content)
          /\ \A i \in SessionIds :
                 /\ disk'[i].kind = disk[i].kind
                 /\ disk[i].kind = "dir" => disk'[i].meta = disk[i].meta
      ]_vars

\* a refresh request was sent for a logged-in session and failed
C23_Witness ==
    /\ ev.op = "get_valid_id_token"
    /\ ev.http = <<"token/refresh">>
    /\ ev.refresh.kind \in {"non200", "malformed", "exception"}
    /\ current_session # None
    /\ current_session[1].id_token # None

\* ---- C24
\* C24: there is one current-session slot for all callers: once user A and
\* then user B have logged in, a tool call by either of them that passes the
\* login gate is executed with B's user id and with the bearer token the
\* backend last issued to B.
C24_SharedSlot ==
    (/\ ev.op = "tool"
     /\ ev.ret # "not_logged_in"
     /\ ev.granted # None) =>
        /\ ev.as_user = Some(ev.granted[1].localId)
        /\ ev.bearer = Some(ev.granted[1].idToken)

\* alice logged in, bob logged in after her, and a tool call of alice went
\* out with bob's id
C24_Witness ==
    /\ ev.op = "tool"
    /\ ev.caller = "alice"
    /\ ev.ret = "data_stored"
    /\ ev.earlier # None
    /\ ev.earlier[1].localId = "alice"
    /\ ev.granted[1].caller = "bob"
    /\ ev.as_user = Some("bob")
    /\ ev.bearer[1] \in TokensOf("bob")

\* ---- C25
\* what identifies a session and bounds its life
Lifetime(sess) == <<sess.session_id, sess.created_at, sess.expires_at>>

\* the metadata file of directory i can be read in d
HasMetadata(d, i) == d[i].kind = "dir" /\ d[i].meta.kind = "ok"

\* C25: when create_session returns, expires_at = created_at +
\* session_ttl_hours; and no later operation changes session_id, created_at
\* or expires_at, neither of the in-memory session nor in a
\* session_metadata.json (a session restored from disk has the values of
\* its file).
C25_ExpiryFixedAtCreation ==
    [][/\ ev'.op = "create_session" =>
            ev'.ret.expires_at = ev'.ret.created_at + session_ttl_hours * SecondsPerHour
       /\ \A i \in SessionIds :
            (HasMetadata(disk, i) /\ HasMetadata(disk', i)) =>
                Lifetime(disk'[i].meta.content) = Lifetime(disk[i].meta.content)
       /\ (current_session' # None /\ current_session' # current_session) =>
            LET s == current_session'[1]
            IN \/ current_session # None /\ Lifetime(s) = Lifetime(current_session[1])
               \/ HasMetadata(disk, s.session_id) /\ Lifetime(s) = Lifetime(disk[s.session_id].meta.content)
               \/ ~HasMetadata(disk, s.session_id) /\ HasMetadata(disk', s.session_id)
                    /\ Lifetime(s) = Lifetime(disk'[s.session_id].meta.content)
      ]_vars

\* ---- C26
\* C26: whenever the Session Manager holds an in-memory current session,
\* the directory of that session and its session_metadata.json exist on
\* disk: no sweep (by age, size or count), cleanup_session or load_session
\* of an expired id leaves the slot pointing at a deleted session.
C26_SlotHasDirectory ==
    current_session # None =>
        /\ OnDisk(current_session[1].session_id)
        /\ disk[current_session[1].session_id].meta.kind # "absent"

\* ---- C27
\* the invocations that have a session of their own to work on
Underway == {c \in DOMAIN callers : callers[c].pc \in {"creating", "has_session", "done"}}

\* C27: when several tool invocations run concurrently and each finds no
\* session, exactly one session is created and every invocation operates on
\* it; and the session whose auth a concurrent user_login has updated is the
\* one in the in-memory slot.
C27_OneSessionForAll ==
    /\ Cardinality({c \in Underway : callers[c].created}) <= 1
    /\ \A c, d \in Underway :
           callers[c].session.session_id = callers[d].session.session_id
    /\ \A c \in Underway :
           (/\ callers[c].pc = "done"
            /\ callers[c].ret = "login_successful"
            /\ \A d \in Underway : callers[d].pc = "done") =>
               /\ current_session # None
               /\ current_session[1].session_id = callers[c].session.session_id

\* ---- C28
\* C28: whenever user_login has returned its success message, a
\* get_valid_id_token call made right afterwards, before the expiry recorded
\* for the token, returns the user id and the id token of that login
\* response and sends no request to the backend, whatever tool calls and
\* retention sweeps came before the login.
C28_LoginTakesEffect ==
    [][(/\ ev.op = "user_login"
        /\ ev.ret = "login_successful"
        /\ ev'.op = "get_valid_id_token"
        /\ now' < now + ev.resp.expiresIn - TokenBufferSeconds) =>
          /\ ev'.user_id = Some(ev.resp.localId)
          /\ ev'.id_token = Some(ev.resp.idToken)
          /\ ev'.http = <<>>
      ]_vars

\* ---- C29
\* the lock of path p is held
Locked(p) == p \in DOMAIN locks /\ locks[p].locked

\* C29: the lock of a path is released on every exit from use_json (read or
\* write done, missing file, unparsable file, I/O failure, unrecognised
\* mode): a call waiting for the lock eventually holds it, and a call that
\* holds it eventually completes; no path stays locked for ever.
C29_LockAlwaysReleased ==
    /\ \A c \in CallerIds :
          /\ (callers[c].pc = "waiting") ~> (callers[c].pc = "critical")
          /\ (callers[c].pc = "critical") ~> (callers[c].pc = "idle")
    /\ \A p \in Paths : Locked(p) ~> ~Locked(p)

\* a call left use_json by an exception and the first call waiting for the
\* same path has been woken
C29_Witness ==
    /\ ev.op = "use_json"
    /\ ev.exit \in {"IOError", "ValueError"}
    /\ ~locks[ev.path].locked
    /\ locks[ev.path].woken # None
    /\ callers[locks[ev.path].woken[1]].pc = "waiting"

\* ---- C30
\* the session whose metadata is in directory i has not expired at t
LiveOnDisk(i, t) == HasMetadata(disk, i) /\ t < disk[i].meta.content.expires_at

\* C30: cleanup_expired_sessions run with max_age_hours = session_ttl_hours
\* never removes the directory of a session whose expires_at is still in the
\* future, on disk or in memory, after any sequence of create_session,
\* store_data, read_data and update_session_auth.
C30_SweepSparesLiveSessions ==
    [][(/\ ev'.op = "cleanup_expired_sessions"
        /\ ev'.max_age_hours = session_ttl_hours) =>
          /\ \A i \in ev'.removed : ~LiveOnDisk(i, now)
          /\ (current_session # None /\ now < current_session[1].expires_at) =>
                 current_session[1].session_id \notin ev'.removed
      ]_vars

\* the sweep has removed the directory of an expired session and left the
\* directory of the live current session, which had been in use
C30_Witness ==
    /\ ev.op = "cleanup_expired_sessions"
    /\ ev.max_age_hours = session_ttl_hours
    /\ ev.cleaned = 1
    /\ current_session # None
    /\ now < current_session[1].expires_at
    /\ LiveOnDisk(current_session[1].session_id, now)
    /\ disk[current_session[1].session_id].info.kind = "ok"

====
